---- MODULE Spec2Model ----
(***************************************************************************)
(* Model of the txnscope ingestor: the selector filter (filter.rs), the    *)
(* pipeline orchestrator with its in-memory publisher                      *)
(* (tests/mock_pipeline.rs) and the IPC connection manager (ipc.rs).       *)
(*                                                                         *)
(* Byte buffers are sequences of 0..255.  Strings the code computes        *)
(* (hex renderings, paths) are sequences of one-character strings; strings *)
(* the code only copies are TLA+ strings.  Option values are               *)
(* [some |-> FALSE] or [some |-> TRUE, val |-> v].                         *)
(*                                                                         *)
(* The specifications share the variables: SpecPipeline moves only the     *)
(* mock pipeline, SpecIpc only the connection manager, SpecCalls applies   *)
(* the stateless operations, SpecOrchestrator moves only the Pipeline      *)
(* Orchestrator of spec.md 4.5 and 5, whose own code is not among the      *)
(* sources and which is written from that text over the decoder and the    *)
(* publisher.                                                              *)
(***************************************************************************)
EXTENDS Integers, Sequences, FiniteSets, TLC

VARIABLES
    \* MockRedisPublisher (mock_pipeline.rs:54-58)
    messages,          \* Vec<TransactionMessage> captured by the publisher
    fail_next,         \* number of coming publish calls that fail
    \* MockPipeline (mock_pipeline.rs:100-106)
    filtered_count,
    processed_count,
    error_count,
    \* observation of the calls made on the pipeline (not program state)
    publish_calls,     \* number of MockRedisPublisher::publish calls so far
    log,               \* one entry per process_one call, in call order
    ret,               \* what the last call on the pipeline returned
    \* IpcConnection (ipc.rs:147-150) and its environment
    config,            \* IpcConfig
    reconnect_attempts,
    home_dir,          \* dirs::home_dir(): Option<path>
    fs,                \* set of paths that exist on the file system
    pc,                \* position of the caller: idle, in the handshake of a
                       \* direct connect(), or in reconnect() at the loop
                       \* head (loop), before its connect (connecting) or in
                       \* the handshake of that connect (loop_handshake)
    trace,             \* events (sleep, connect) of the current or last reconnect() call
    start_attempts,    \* reconnect_attempts when that reconnect() call started
    start_failed,      \* whether the manager was Failed when that call started
    failed,            \* Failed: reconnect() gave up, and no reset or successful
                       \* connect() since
    ipc_ret,           \* what the last completed call on the connection returned
    waited,            \* half timeouts the caller has spent in a handshake
                       \* that has not completed
    providers,         \* RootProvider handles connect() and reconnect() have
                       \* returned and the caller has not dropped
    \* the stateless operations (filter.rs, decoder.rs, publisher.rs, IpcConfig)
    call,              \* the last application: the operation, its argument and
                       \* what it gave
    \* the Pipeline Orchestrator (spec.md 4.5, 5)
    stream,            \* transactions the subscription transport still holds
    stage,             \* idle (at the socket read), decode, filter, publish,
                       \* or stopped
    in_flight,         \* the transaction being driven through the stages
    processedCount,
    filteredCount,
    publishedCount,
    errorCount,
    issued,            \* PUBLISH commands issued on the publish transport
    outcomes,          \* what became of each transaction read, in order
    stop               \* the stop signal, once acknowledged

pipeVars == <<messages, fail_next, filtered_count, processed_count, error_count,
              publish_calls, log, ret>>
ipcVars == <<config, reconnect_attempts, home_dir, fs, pc, trace, start_attempts,
             start_failed, failed, ipc_ret, waited, providers>>
fnVars == <<call>>
orchVars == <<stream, stage, in_flight, processedCount, filteredCount,
              publishedCount, errorCount, issued, outcomes, stop>>
vars == <<messages, fail_next, filtered_count, processed_count, error_count,
          publish_calls, log, ret,
          config, reconnect_attempts, home_dir, fs, pc, trace, start_attempts,
          start_failed, failed, ipc_ret, waited, providers, call,
          stream, stage, in_flight, processedCount, filteredCount,
          publishedCount, errorCount, issued, outcomes, stop>>

None == [some |-> FALSE]
Some(v) == [some |-> TRUE, val |-> v]

Min(a, b) == IF a < b THEN a ELSE b

(***************************************************************************)
(* Bounds of the model.                                                    *)
(***************************************************************************)
\* process_one calls per behaviour (caps processed_count)
MaxTx == 3
\* largest argument of set_fail_next
MaxFail == 2
\* longest vector handed to process_all
MaxBatch == 2
\* the largest configured max_reconnect_attempts is this much above the default
MaxExtraAttempts == 2
\* how long a handshake that never completes is followed, in half timeouts
MaxWaitTicks == 3
\* attempt numbers handed to backoff_delay: past the 10 doublings
MaxAttempt == 12
\* provider handles the caller holds at once
MaxProviders == 2
\* transactions the subscription transport delivers in a behaviour
MaxStream == 3

(***************************************************************************)
(* filter.rs                                                               *)
(***************************************************************************)
DexMethodIds == {"AddLiquidityEth", "AddLiquidity", "SwapExactEthForTokens",
                 "SwapExactTokensForTokens", "SwapTokensForExactTokens",
                 "SwapExactTokensForEth"}

\* DexMethodId::selector
selector(m) ==
    CASE m = "AddLiquidityEth" -> <<243, 5, 215, 25>>
      [] m = "AddLiquidity" -> <<232, 227, 55, 0>>
      [] m = "SwapExactEthForTokens" -> <<127, 243, 106, 181>>
      [] m = "SwapExactTokensForTokens" -> <<56, 237, 23, 57>>
      [] m = "SwapTokensForExactTokens" -> <<136, 3, 219, 238>>
      [] m = "SwapExactTokensForEth" -> <<24, 203, 175, 229>>

\* DexMethodId::name
name(m) ==
    CASE m = "AddLiquidityEth" -> "addLiquidityETH"
      [] m = "AddLiquidity" -> "addLiquidity"
      [] m = "SwapExactEthForTokens" -> "swapExactETHForTokens"
      [] m = "SwapExactTokensForTokens" -> "swapExactTokensForTokens"
      [] m = "SwapTokensForExactTokens" -> "swapTokensForExactTokens"
      [] m = "SwapExactTokensForEth" -> "swapExactTokensForETH"

\* DexMethodId::hex with one digit of one row mistyped
hex_typo(m) ==
    CASE m = "AddLiquidityEth" -> "0xf305d719"
      [] m = "AddLiquidity" -> "0xe8e33700"
      [] m = "SwapExactEthForTokens" -> "0x7ff36ab5"
      [] m = "SwapExactTokensForTokens" -> "0x38ed1739"
      [] m = "SwapTokensForExactTokens" -> "0x8803dbef"
      [] m = "SwapExactTokensForEth" -> "0x18cbafe5"

\* DexMethodId::hex
hex(m) ==
    CASE m = "AddLiquidityEth" -> "0xf305d719"
      [] m = "AddLiquidity" -> "0xe8e33700"
      [] m = "SwapExactEthForTokens" -> "0x7ff36ab5"
      [] m = "SwapExactTokensForTokens" -> "0x38ed1739"
      [] m = "SwapTokensForExactTokens" -> "0x8803dbee"
      [] m = "SwapExactTokensForEth" -> "0x18cbafe5"

\* static DEX_METHODS: the (key, value) pairs inserted into the HashMap
DEX_METHODS ==
    { <<<<243, 5, 215, 25>>, "AddLiquidityEth">>,
      <<<<232, 227, 55, 0>>, "AddLiquidity">>,
      <<<<127, 243, 106, 181>>, "SwapExactEthForTokens">>,
      <<<<56, 237, 23, 57>>, "SwapExactTokensForTokens">>,
      <<<<136, 3, 219, 238>>, "SwapTokensForExactTokens">>,
      <<<<24, 203, 175, 229>>, "SwapExactTokensForEth">> }

is_dex_method(method_id) == \E e \in DEX_METHODS : e[1] = method_id

get_dex_method(method_id) ==
    IF \E e \in DEX_METHODS : e[1] = method_id
    THEN Some((CHOOSE e \in DEX_METHODS : e[1] = method_id)[2])
    ELSE None

\* filter::extract_method_id
extract_method_id(input) ==
    IF Len(input) < 4 THEN None ELSE Some(SubSeq(input, 1, 4))

\* filter_transaction, taking a buffer of exactly 4 bytes only
filter_transaction_exact(input) ==
    IF Len(input) = 4 THEN get_dex_method(input) ELSE None

filter_transaction(input) ==
    LET id == extract_method_id(input)
    IN IF id.some THEN get_dex_method(id.val) ELSE None

(***************************************************************************)
(* decoder.rs: the selector                                                *)
(***************************************************************************)
\* decoder::extract_method_id, refusing a buffer of exactly 4 bytes
decoder_extract_method_id_strict(input) ==
    IF Len(input) <= 4 THEN None
    ELSE Some([i \in 1..4 |-> input[i]])

\* decoder::extract_method_id: a [u8; 4] filled from input[..4]
decoder_extract_method_id(input) ==
    IF Len(input) < 4 THEN None
    ELSE Some([i \in 1..4 |-> input[i]])

(***************************************************************************)
(* tests/mock_pipeline.rs: the inputs                                      *)
(***************************************************************************)
Repeat(b, n) == [i \in 1..n |-> b]

\* create_dex_tx: the selector followed by dummy parameter bytes
DexCalldata(m, pad) == selector(m) \o Repeat(0, pad)

\* create_non_dex_tx: the ERC-20 transfer selector and four zero bytes
NonDexCalldata == <<169, 5, 156, 187, 0, 0, 0, 0>>

\* a buffer shorter than a selector: the first 3 bytes of one
ShortCalldata == <<56, 237, 23>>

\* MockPendingTx: raw bytes and the sender, Address::repeat_byte(b); one raw
\* buffer is shorter and one longer than the 32 bytes the hash is cut from
PendingTx1 == [raw |-> Repeat(248, 2), from |-> Repeat(17, 20)]
PendingTx2 == [raw |-> Repeat(248, 33), from |-> Repeat(171, 20)]

\* what one process_one call is given: its arguments, and the reading of
\* SystemTime::now(), in milliseconds since the epoch, it gets.  Two DEX
\* calls, one of them from either sender, the ERC-20 transfer and the short
\* buffer
Inputs ==
    { [tx |-> PendingTx1, now |-> 1,
       calldata |-> DexCalldata("SwapExactTokensForTokens", 2)],
      [tx |-> PendingTx2, now |-> 2,
       calldata |-> DexCalldata("SwapExactTokensForTokens", 2)],
      [tx |-> PendingTx2, now |-> 2,
       calldata |-> DexCalldata("AddLiquidityEth", 0)],
      [tx |-> PendingTx1, now |-> 1, calldata |-> NonDexCalldata],
      [tx |-> PendingTx2, now |-> 2, calldata |-> ShortCalldata] }

(***************************************************************************)
(* tests/mock_pipeline.rs: MockRedisPublisher and MockPipeline             *)
(***************************************************************************)
HexDigits == <<"0", "1", "2", "3", "4", "5", "6", "7",
               "8", "9", "a", "b", "c", "d", "e", "f">>

\* hex::encode and the {:x} rendering of an address: two lowercase digits a byte
RECURSIVE hex_encode(_)
hex_encode(bytes) ==
    IF bytes = <<>> THEN <<>>
    ELSE <<HexDigits[(Head(bytes) \div 16) + 1], HexDigits[(Head(bytes) % 16) + 1]>>
         \o hex_encode(Tail(bytes))

\* bytes of the hash field: raw[..32.min(len)] chained with zeros, 32 taken
HashBytes(raw) ==
    LET cut == SubSeq(raw, 1, Min(32, Len(raw)))
    IN cut \o Repeat(0, 32 - Len(cut))

\* the TransactionMessage process_one builds (step 2)
BuildMessage(pending_tx, dex_method, now) ==
    [ hash |-> <<"0", "x">> \o hex_encode(HashBytes(pending_tx.raw)),
      from |-> <<"0", "x">> \o hex_encode(pending_tx.from),
      to |-> "0x7a250d5630B4cF539739dF2C5dAcb4c659F2488D",
      method |-> name(dex_method),
      method_id |-> hex(dex_method),
      value |-> "0",
      gas_price |-> "20000000000",
      timestamp |-> now ]

\* the pipeline and its publisher as one value
PipelineState ==
    [ messages |-> messages, fail_next |-> fail_next,
      filtered_count |-> filtered_count, processed_count |-> processed_count,
      error_count |-> error_count, publish_calls |-> publish_calls ]

\* publish, capturing the newest message first
publish_front(st, message) ==
    IF st.fail_next > 0
    THEN [ st |-> [st EXCEPT !.fail_next = @ - 1, !.publish_calls = @ + 1],
           result |-> "Err(ConnectionLost)" ]
    ELSE [ st |-> [st EXCEPT !.messages = <<message>> \o @,
                             !.publish_calls = @ + 1],
           result |-> "Ok(1)" ]

\* MockRedisPublisher::publish
publish(st, message) ==
    IF st.fail_next > 0
    THEN [ st |-> [st EXCEPT !.fail_next = @ - 1, !.publish_calls = @ + 1],
           result |-> "Err(ConnectionLost)" ]
    ELSE [ st |-> [st EXCEPT !.messages = Append(@, message),
                             !.publish_calls = @ + 1],
           result |-> "Ok(1)" ]

\* process_one, refusing every transaction once a publish has failed
process_one_halting(st, pending_tx, calldata, now) ==
    LET st1 == [st EXCEPT !.processed_count = @ + 1]
        dex_method == filter_transaction(calldata)
    IN IF st.error_count > 0
       THEN [st |-> st1, result |-> "Err(Failed to publish)"]
       ELSE IF ~dex_method.some
       THEN [st |-> st1, result |-> "Ok(false)"]
       ELSE LET st2 == [st1 EXCEPT !.filtered_count = @ + 1]
                message == BuildMessage(pending_tx, dex_method.val, now)
                p == publish(st2, message)
            IN IF p.result = "Ok(1)"
               THEN [st |-> p.st, result |-> "Ok(true)"]
               ELSE [ st |-> [p.st EXCEPT !.error_count = @ + 1],
                      result |-> "Err(Failed to publish)" ]

\* process_one, publishing a second time when the first publish fails
process_one_retry(st, pending_tx, calldata, now) ==
    LET st1 == [st EXCEPT !.processed_count = @ + 1]
        dex_method == filter_transaction(calldata)
    IN IF ~dex_method.some
       THEN [st |-> st1, result |-> "Ok(false)"]
       ELSE LET st2 == [st1 EXCEPT !.filtered_count = @ + 1]
                message == BuildMessage(pending_tx, dex_method.val, now)
                p1 == publish(st2, message)
                p == IF p1.result = "Ok(1)" THEN p1 ELSE publish(p1.st, message)
            IN IF p.result = "Ok(1)"
               THEN [st |-> p.st, result |-> "Ok(true)"]
               ELSE [ st |-> [p.st EXCEPT !.error_count = @ + 1],
                      result |-> "Err(Failed to publish)" ]

\* process_one, counting the transaction as filtered before it is filtered
process_one_count_first(st, pending_tx, calldata, now) ==
    LET st1 == [st EXCEPT !.processed_count = @ + 1, !.filtered_count = @ + 1]
        dex_method == filter_transaction(calldata)
    IN IF ~dex_method.some
       THEN [st |-> st1, result |-> "Ok(false)"]
       ELSE LET message == BuildMessage(pending_tx, dex_method.val, now)
                p == publish(st1, message)
            IN IF p.result = "Ok(1)"
               THEN [st |-> p.st, result |-> "Ok(true)"]
               ELSE [ st |-> [p.st EXCEPT !.error_count = @ + 1],
                      result |-> "Err(Failed to publish)" ]

\* process_one, returning the error of a failed publish without counting it
process_one_uncounted_error(st, pending_tx, calldata, now) ==
    LET st1 == [st EXCEPT !.processed_count = @ + 1]
        dex_method == filter_transaction(calldata)
    IN IF ~dex_method.some
       THEN [st |-> st1, result |-> "Ok(false)"]
       ELSE LET st2 == [st1 EXCEPT !.filtered_count = @ + 1]
                message == BuildMessage(pending_tx, dex_method.val, now)
                p == publish(st2, message)
            IN IF p.result = "Ok(1)"
               THEN [st |-> p.st, result |-> "Ok(true)"]
               ELSE [st |-> p.st, result |-> "Err(Failed to publish)"]

\* MockPipeline::process_one
process_one(st, pending_tx, calldata, now) ==
    LET st1 == [st EXCEPT !.processed_count = @ + 1]
        dex_method == filter_transaction(calldata)
    IN IF ~dex_method.some
       THEN [st |-> st1, result |-> "Ok(false)"]
       ELSE LET st2 == [st1 EXCEPT !.filtered_count = @ + 1]
                message == BuildMessage(pending_tx, dex_method.val, now)
                p == publish(st2, message)
            IN IF p.result = "Ok(1)"
               THEN [st |-> p.st, result |-> "Ok(true)"]
               ELSE [ st |-> [p.st EXCEPT !.error_count = @ + 1],
                      result |-> "Err(Failed to publish)" ]

\* what a process_one call is seen to do: its input, whether the publisher
\* was set to fail when it started, its result, how many publish calls and
\* captured messages it added, and what it added to the three counters
LogEntry(st, in, r) ==
    [ in |-> in, failing |-> (st.fail_next > 0), result |-> r.result,
      calls |-> r.st.publish_calls - st.publish_calls,
      added |-> Len(r.st.messages) - Len(st.messages),
      processed |-> r.st.processed_count - st.processed_count,
      filtered |-> r.st.filtered_count - st.filtered_count,
      errors |-> r.st.error_count - st.error_count ]

\* MockPipeline::process_all: the loop over the vector; acc carries the
\* pipeline, the local counter `published` and the entries observed
RECURSIVE process_all(_, _)
process_all(acc, transactions) ==
    IF transactions = <<>> THEN acc
    ELSE LET in == Head(transactions)
             r == process_one(acc.st, in.tx, in.calldata, in.now)
         IN process_all(
                [ st |-> r.st,
                  published |-> IF r.result = "Ok(true)"
                                THEN acc.published + 1 ELSE acc.published,
                  entries |-> Append(acc.entries, LogEntry(acc.st, in, r)) ],
                Tail(transactions))

SetPipeline(st) ==
    /\ messages' = st.messages
    /\ fail_next' = st.fail_next
    /\ filtered_count' = st.filtered_count
    /\ processed_count' = st.processed_count
    /\ error_count' = st.error_count
    /\ publish_calls' = st.publish_calls

\* MockPipeline::published_count: the publisher's message_count()
published_count == Len(messages)

\* a call of process_one
ProcessOne ==
    /\ processed_count < MaxTx
    /\ \E in \in Inputs :
         LET r == process_one(PipelineState, in.tx, in.calldata, in.now)
         IN /\ SetPipeline(r.st)
            /\ log' = Append(log, LogEntry(PipelineState, in, r))
            /\ ret' = [op |-> "process_one", val |-> r.result]
    /\ UNCHANGED ipcVars
    /\ UNCHANGED fnVars
    /\ UNCHANGED orchVars

\* the vectors of at most n transactions
Batches(n) == UNION { [1..k -> Inputs] : k \in 0..n }

\* a call of process_all
ProcessAll ==
    /\ \E transactions \in Batches(Min(MaxBatch, MaxTx - processed_count)) :
         /\ LET acc == process_all([st |-> PipelineState, published |-> 0,
                                    entries |-> <<>>], transactions)
            IN /\ SetPipeline(acc.st)
               /\ log' = log \o acc.entries
               /\ ret' = [op |-> "process_all", val |-> acc.published]
    /\ UNCHANGED ipcVars
    /\ UNCHANGED fnVars
    /\ UNCHANGED orchVars

\* MockRedisPublisher::set_fail_next
SetFailNext ==
    /\ \E count \in 0..MaxFail : fail_next' = count
    /\ UNCHANGED <<messages, filtered_count, processed_count, error_count,
                   publish_calls, log, ret>>
    /\ UNCHANGED ipcVars
    /\ UNCHANGED fnVars
    /\ UNCHANGED orchVars

(***************************************************************************)
(* ipc.rs                                                                  *)
(***************************************************************************)
MAX_RECONNECT_ATTEMPTS == 10
INITIAL_BACKOFF_MS == 100
MAX_BACKOFF_MS == 30000
CONNECTION_TIMEOUT_MS == 5000

RECURSIVE Pow2(_)
Pow2(n) == IF n = 0 THEN 1 ELSE 2 * Pow2(n - 1)

\* IpcConfig::backoff_delay with one doubling less
backoff_delay_cap9(cfg, attempt) ==
    LET delay_ms == cfg.initial_backoff_ms * Pow2(Min(attempt, 9))
    IN Min(delay_ms, cfg.max_backoff_ms)

\* IpcConfig::backoff_delay with the attempt number uncapped
backoff_delay_uncapped(cfg, attempt) ==
    LET delay_ms == cfg.initial_backoff_ms * Pow2(attempt)
    IN Min(delay_ms, cfg.max_backoff_ms)

\* IpcConfig::backoff_delay, in milliseconds.  The configurations of
\* IpcConfigs and BackoffConfigs keep initial_backoff_ms * 2^10 far below
\* 2^64, so the u64 product is the mathematical one.
backoff_delay(cfg, attempt) ==
    LET delay_ms == cfg.initial_backoff_ms * Pow2(Min(attempt, 10))
    IN Min(delay_ms, cfg.max_backoff_ms)

\* a call that returned v, and one that panicked
Returns(v) == [panic |-> FALSE, val |-> v]
Panics(msg) == [panic |-> TRUE, msg |-> msg]

\* a u64 in full width: 4 digits of base 2^16, the lowest first
LIMB == 65536
u64(n) == <<n % LIMB, (n \div LIMB) % LIMB, 0, 0>>
U64_MAX == <<LIMB - 1, LIMB - 1, LIMB - 1, LIMB - 1>>

\* x * m for a factor m of at most 2^10: the product modulo 2^64, and
\* whether it overflowed
wrapping_mul(x, m) ==
    LET p1 == x[1] * m
        p2 == x[2] * m + (p1 \div LIMB)
        p3 == x[3] * m + (p2 \div LIMB)
        p4 == x[4] * m + (p3 \div LIMB)
    IN [ val |-> <<p1 % LIMB, p2 % LIMB, p3 % LIMB, p4 % LIMB>>,
         overflow |-> p4 \div LIMB > 0 ]

\* a < b, and u64::min
u64_lt(a, b) ==
    \E i \in 1..4 : a[i] < b[i] /\ \A k \in (i + 1)..4 : a[k] = b[k]
u64_min(a, b) == IF u64_lt(b, a) THEN b ELSE a

\* IpcConfig::backoff_delay on u64 fields of full width.  The multiplication
\* panics on overflow in a build with overflow checks (the default of the dev
\* and test profiles) and wraps in one without (the release profile)
backoff_delay_u64(cfg, attempt, overflow_checks) ==
    LET delay_ms == wrapping_mul(cfg.initial_backoff_ms, Pow2(Min(attempt, 10)))
    IN IF delay_ms.overflow /\ overflow_checks
       THEN Panics("attempt to multiply with overflow")
       ELSE Returns(u64_min(delay_ms.val, cfg.max_backoff_ms))

\* str::starts_with
starts_with(s, prefix) ==
    Len(s) >= Len(prefix) /\ SubSeq(s, 1, Len(prefix)) = prefix

\* str::replacen(pat, to, 1) for a one-character pattern
RECURSIVE replace_first(_, _, _)
replace_first(s, pat, to) ==
    IF s = <<>> THEN <<>>
    ELSE IF Head(s) = pat THEN to \o Tail(s)
    ELSE <<Head(s)>> \o replace_first(Tail(s), pat, to)

\* expand_path expanding the first tilde wherever it stands
expand_path_any_tilde(path, home) ==
    IF (\E i \in 1..Len(path) : path[i] = "~") /\ home.some
    THEN replace_first(path, "~", home.val)
    ELSE path

\* expand_path; home is dirs::home_dir()
expand_path(path, home) ==
    IF starts_with(path, <<"~", "/">>) /\ home.some
    THEN replace_first(path, "~", home.val)
    ELSE path

\* the paths a connection is configured with, the home directories and the
\* paths that may exist
SocketPaths == { <<"/", "a">>, <<"~", "/", "a">> }
HomeDirs == { None, Some(<<"/", "h">>) }
FsPaths == { <<"/", "a">>, <<"/", "h", "/", "a">> }

\* IpcConfig values: no attempts, a few, and more than the 10 doublings of
\* the backoff; a maximum the doubling reaches early, the default one, and one
\* it never reaches
IpcConfigs ==
    [ socket_path : SocketPaths,
      max_reconnect_attempts : {0, 2, MAX_RECONNECT_ATTEMPTS + MaxExtraAttempts},
      initial_backoff_ms : {INITIAL_BACKOFF_MS},
      max_backoff_ms : {250, MAX_BACKOFF_MS, 200000},
      timeout_ms : {CONNECTION_TIMEOUT_MS} ]

Ok(provider) == [tag |-> "Ok", kind |-> "provider", arg |-> provider]
Err(kind, arg) == [tag |-> "Err", kind |-> kind, arg |-> arg]

\* what a completed call on the connection is seen to have done: the method,
\* its result, the handshakes it started, the counter when it was called and
\* the paths that existed when it looked
Returned(op, val, handshakes, before, fsys) ==
    [op |-> op, val |-> val, handshakes |-> handshakes, before |-> before,
     fsys |-> fsys]
NoCall == Returned("none", Err("none", 0), 0, 0, {})

\* outcomes of ProviderBuilder::on_ipc(..).await, the handshake with the node:
\* it completes with a provider, completes with an error, or never completes
Handshakes == {"ok", "refused", "pending"}

\* a call that is still awaiting its handshake
Pending(path) == [tag |-> "Pending", kind |-> "handshake", arg |-> path]

\* IpcConnection::reset_reconnect_counter
reset_reconnect_counter(attempts) == 0

\* next_backoff_delay, taking the counter as already incremented
next_backoff_delay_late(cfg, attempts) == backoff_delay(cfg, attempts + 1)

\* IpcConnection::next_backoff_delay
next_backoff_delay(cfg, attempts) == backoff_delay(cfg, attempts)

\* connect, leaving the counter as it is on success
connect_no_reset(cfg, attempts, home, fsys, hs) ==
    LET expanded_path == expand_path(cfg.socket_path, home)
    IN IF expanded_path \notin fsys
       THEN [ result |-> Err("SocketNotFound", expanded_path),
              reconnect_attempts |-> attempts, handshakes |-> 0 ]
       ELSE IF hs = "pending"
       THEN [ result |-> Pending(expanded_path),
              reconnect_attempts |-> attempts, handshakes |-> 1 ]
       ELSE IF hs # "ok"
       THEN [ result |-> Err("ConnectionFailed", hs),
              reconnect_attempts |-> attempts, handshakes |-> 1 ]
       ELSE [ result |-> Ok(expanded_path),
              reconnect_attempts |-> attempts, handshakes |-> 1 ]

\* connect, going to the handshake without looking for the path
connect_no_check(cfg, attempts, home, fsys, hs) ==
    LET expanded_path == expand_path(cfg.socket_path, home)
    IN IF hs = "pending"
       THEN [ result |-> Pending(expanded_path),
              reconnect_attempts |-> attempts, handshakes |-> 1 ]
       ELSE IF hs # "ok" \/ expanded_path \notin fsys
       THEN [ result |-> Err("ConnectionFailed", hs),
              reconnect_attempts |-> attempts, handshakes |-> 1 ]
       ELSE [ result |-> Ok(expanded_path),
              reconnect_attempts |-> reset_reconnect_counter(attempts),
              handshakes |-> 1 ]

\* connect, counting each of its failures as an attempt
connect_counting_failures(cfg, attempts, home, fsys, hs) ==
    LET expanded_path == expand_path(cfg.socket_path, home)
    IN IF expanded_path \notin fsys
       THEN [ result |-> Err("SocketNotFound", expanded_path),
              reconnect_attempts |-> attempts + 1, handshakes |-> 0 ]
       ELSE IF hs = "pending"
       THEN [ result |-> Pending(expanded_path),
              reconnect_attempts |-> attempts, handshakes |-> 1 ]
       ELSE IF hs # "ok"
       THEN [ result |-> Err("ConnectionFailed", hs),
              reconnect_attempts |-> attempts + 1, handshakes |-> 1 ]
       ELSE [ result |-> Ok(expanded_path),
              reconnect_attempts |-> reset_reconnect_counter(attempts),
              handshakes |-> 1 ]

\* IpcConnection::connect: the result, the counter after the call, and the
\* number of handshakes it started.  The await of the handshake is the only
\* suspension point and nothing bounds it: timeout_ms is not read
connect(cfg, attempts, home, fsys, hs) ==
    LET expanded_path == expand_path(cfg.socket_path, home)
    IN IF expanded_path \notin fsys
       THEN [ result |-> Err("SocketNotFound", expanded_path),
              reconnect_attempts |-> attempts, handshakes |-> 0 ]
       ELSE IF hs = "pending"
       THEN [ result |-> Pending(expanded_path),
              reconnect_attempts |-> attempts, handshakes |-> 1 ]
       ELSE IF hs # "ok"
       THEN [ result |-> Err("ConnectionFailed", hs),
              reconnect_attempts |-> attempts, handshakes |-> 1 ]
       ELSE [ result |-> Ok(expanded_path),
              reconnect_attempts |-> reset_reconnect_counter(attempts),
              handshakes |-> 1 ]

SleepEv(ms) == [ev |-> "sleep", ms |-> ms, res |-> "-"]
ConnectEv(c) == [ev |-> "connect", ms |-> 0, res |-> c.result.tag]

\* a direct call of connect(): it returns, or stays in its handshake
Connect ==
    /\ pc = "idle"
    /\ \E hs \in Handshakes :
         LET c == connect(config, reconnect_attempts, home_dir, fs, hs)
         IN IF c.result.tag = "Pending"
            THEN /\ pc' = "handshake"
                 /\ waited' = 0
                 /\ UNCHANGED <<reconnect_attempts, ipc_ret, failed,
                                providers>>
            ELSE /\ c.result.tag = "Ok" => providers < MaxProviders
                 /\ providers' = IF c.result.tag = "Ok" THEN providers + 1
                                                         ELSE providers
                 /\ reconnect_attempts' = c.reconnect_attempts
                 /\ ipc_ret' = Returned("connect", c.result, c.handshakes,
                                        reconnect_attempts, fs)
                 /\ failed' = (failed /\ c.result.tag # "Ok")
                 /\ UNCHANGED <<pc, waited>>
    /\ UNCHANGED <<config, home_dir, fs, trace, start_attempts, start_failed>>
    /\ UNCHANGED pipeVars
    /\ UNCHANGED fnVars
    /\ UNCHANGED orchVars

\* a call of reset_reconnect_counter()
ResetReconnectCounter ==
    /\ pc = "idle"
    /\ reconnect_attempts' = reset_reconnect_counter(reconnect_attempts)
    /\ failed' = FALSE
    /\ ipc_ret' = Returned("reset", Ok(<<>>), 0, reconnect_attempts, fs)
    /\ UNCHANGED <<waited, config, home_dir, fs, pc, trace, start_attempts,
                   start_failed>>
    /\ UNCHANGED providers
    /\ UNCHANGED pipeVars
    /\ UNCHANGED fnVars
    /\ UNCHANGED orchVars

\* reconnect() called, with the counter starting afresh
ReconnectCall_fresh ==
    /\ pc = "idle"
    /\ pc' = "loop"
    /\ trace' = <<>>
    /\ reconnect_attempts' = 0
    /\ start_attempts' = reconnect_attempts
    /\ start_failed' = failed
    /\ UNCHANGED <<waited, config, home_dir, fs, failed, ipc_ret>>
    /\ UNCHANGED providers
    /\ UNCHANGED pipeVars
    /\ UNCHANGED fnVars
    /\ UNCHANGED orchVars

\* reconnect() is called: the caller is at the loop head
ReconnectCall ==
    /\ pc = "idle"
    /\ pc' = "loop"
    /\ trace' = <<>>
    /\ start_attempts' = reconnect_attempts
    /\ start_failed' = failed
    /\ UNCHANGED <<waited, config, reconnect_attempts, home_dir, fs, failed, ipc_ret>>
    /\ UNCHANGED providers
    /\ UNCHANGED pipeVars
    /\ UNCHANGED fnVars
    /\ UNCHANGED orchVars

\* the loop condition, one attempt too many
LoopCondition_inclusive == reconnect_attempts <= config.max_reconnect_attempts

\* the loop condition of reconnect()
LoopCondition == reconnect_attempts < config.max_reconnect_attempts

\* the loop body up to the connect, leaving the counter alone
ReconnectSleep_no_increment ==
    /\ pc = "loop"
    /\ LoopCondition
    /\ LET delay == next_backoff_delay(config, reconnect_attempts)
       IN trace' = Append(trace, SleepEv(delay))
    /\ pc' = "connecting"
    /\ UNCHANGED <<waited, config, reconnect_attempts, home_dir, fs,
                   start_attempts, start_failed, failed, ipc_ret>>
    /\ UNCHANGED providers
    /\ UNCHANGED pipeVars
    /\ UNCHANGED fnVars
    /\ UNCHANGED orchVars

\* reconnect(), loop body up to the connect: the delay is computed, slept, and
\* the counter incremented
ReconnectSleep ==
    /\ pc = "loop"
    /\ LoopCondition
    /\ LET delay == next_backoff_delay(config, reconnect_attempts)
       IN trace' = Append(trace, SleepEv(delay))
    /\ reconnect_attempts' = reconnect_attempts + 1
    /\ pc' = "connecting"
    /\ UNCHANGED <<waited, config, home_dir, fs, start_attempts, start_failed, failed,
                   ipc_ret>>
    /\ UNCHANGED providers
    /\ UNCHANGED pipeVars
    /\ UNCHANGED fnVars
    /\ UNCHANGED orchVars

\* the connect of the loop body, with the loop going on after a success
ReconnectAttempt_no_return ==
    /\ pc = "connecting"
    /\ \E hs \in Handshakes :
         LET c == connect(config, reconnect_attempts, home_dir, fs, hs)
         IN IF c.result.tag = "Pending"
            THEN /\ pc' = "loop_handshake"
                 /\ waited' = 0
                 /\ UNCHANGED <<reconnect_attempts, trace, ipc_ret, failed,
                                providers>>
            ELSE /\ c.result.tag = "Ok" => providers < MaxProviders
                 /\ providers' = IF c.result.tag = "Ok" THEN providers + 1
                                                         ELSE providers
                 /\ reconnect_attempts' = c.reconnect_attempts
                 /\ trace' = Append(trace, ConnectEv(c))
                 /\ pc' = "loop"
                 /\ failed' = (failed /\ c.result.tag # "Ok")
                 /\ UNCHANGED <<ipc_ret, waited>>
    /\ UNCHANGED <<config, home_dir, fs, start_attempts, start_failed>>
    /\ UNCHANGED pipeVars
    /\ UNCHANGED fnVars
    /\ UNCHANGED orchVars

\* the connect of the loop body, with reconnect() returning the error of the
\* first attempt that fails
ReconnectAttempt_first_error ==
    /\ pc = "connecting"
    /\ \E hs \in Handshakes :
         LET c == connect(config, reconnect_attempts, home_dir, fs, hs)
         IN IF c.result.tag = "Pending"
            THEN /\ pc' = "loop_handshake"
                 /\ waited' = 0
                 /\ UNCHANGED <<reconnect_attempts, trace, ipc_ret, failed,
                                providers>>
            ELSE /\ c.result.tag = "Ok" => providers < MaxProviders
                 /\ providers' = IF c.result.tag = "Ok" THEN providers + 1
                                                         ELSE providers
                 /\ reconnect_attempts' = c.reconnect_attempts
                 /\ trace' = Append(trace, ConnectEv(c))
                 /\ UNCHANGED waited
                 /\ pc' = "idle"
                 /\ ipc_ret' = Returned("reconnect", c.result,
                                        c.handshakes, start_attempts, fs)
                 /\ failed' = (failed /\ c.result.tag # "Ok")
    /\ UNCHANGED <<config, home_dir, fs, start_attempts, start_failed>>
    /\ UNCHANGED pipeVars
    /\ UNCHANGED fnVars
    /\ UNCHANGED orchVars

\* reconnect(), the connect of the loop body: Ok returns the provider, an
\* error is logged and the loop goes on; a connect that stays in its handshake
\* keeps reconnect() there
ReconnectAttempt ==
    /\ pc = "connecting"
    /\ \E hs \in Handshakes :
         LET c == connect(config, reconnect_attempts, home_dir, fs, hs)
         IN IF c.result.tag = "Pending"
            THEN /\ pc' = "loop_handshake"
                 /\ waited' = 0
                 /\ UNCHANGED <<reconnect_attempts, trace, ipc_ret, failed,
                                providers>>
            ELSE /\ c.result.tag = "Ok" => providers < MaxProviders
                 /\ providers' = IF c.result.tag = "Ok" THEN providers + 1
                                                         ELSE providers
                 /\ reconnect_attempts' = c.reconnect_attempts
                 /\ trace' = Append(trace, ConnectEv(c))
                 /\ UNCHANGED waited
                 /\ IF c.result.tag = "Ok"
                    THEN /\ pc' = "idle"
                         /\ ipc_ret' = Returned("reconnect", c.result,
                                                c.handshakes, start_attempts, fs)
                         /\ failed' = FALSE
                    ELSE /\ pc' = "loop"
                         /\ UNCHANGED <<ipc_ret, failed>>
    /\ UNCHANGED <<config, home_dir, fs, start_attempts, start_failed>>
    /\ UNCHANGED pipeVars
    /\ UNCHANGED fnVars
    /\ UNCHANGED orchVars

\* reconnect(), after the loop: the attempts are exhausted
ReconnectExhausted ==
    /\ pc = "loop"
    /\ ~LoopCondition
    /\ pc' = "idle"
    /\ ipc_ret' = Returned("reconnect",
                           Err("MaxReconnectAttemptsExceeded",
                               config.max_reconnect_attempts),
                           0, start_attempts, fs)
    /\ failed' = TRUE
    /\ UNCHANGED <<waited, config, reconnect_attempts, home_dir, fs, trace,
                   start_attempts, start_failed>>
    /\ UNCHANGED providers
    /\ UNCHANGED pipeVars
    /\ UNCHANGED fnVars
    /\ UNCHANGED orchVars

\* time passes for a caller whose handshake has not completed: connect() has
\* no timer, so the caller stays where it is
HandshakeWait ==
    /\ pc \in {"handshake", "loop_handshake"}
    /\ waited < MaxWaitTicks
    /\ waited' = waited + 1
    /\ UNCHANGED <<config, reconnect_attempts, home_dir, fs, pc, trace,
                   start_attempts, start_failed, failed, ipc_ret>>
    /\ UNCHANGED providers
    /\ UNCHANGED pipeVars
    /\ UNCHANGED fnVars
    /\ UNCHANGED orchVars

\* the node creates or removes a socket file
FsChange ==
    /\ \E p \in FsPaths : fs' = IF p \in fs THEN fs \ {p} ELSE fs \cup {p}
    /\ UNCHANGED <<waited, config, reconnect_attempts, home_dir, pc, trace,
                   start_attempts, start_failed, failed, ipc_ret>>
    /\ UNCHANGED providers
    /\ UNCHANGED pipeVars
    /\ UNCHANGED fnVars
    /\ UNCHANGED orchVars

\* the caller drops one of the providers it holds
DropProvider ==
    /\ providers > 0
    /\ providers' = providers - 1
    /\ UNCHANGED <<config, reconnect_attempts, home_dir, fs, pc, trace,
                   start_attempts, start_failed, failed, ipc_ret, waited>>
    /\ UNCHANGED pipeVars
    /\ UNCHANGED fnVars
    /\ UNCHANGED orchVars

(***************************************************************************)
(* ipc.rs: validation and discovery of the socket path                     *)
(***************************************************************************)
\* the characters of a string literal
Chars(str) == [i \in 1..Len(str) |-> SubSeq(str, i, i)]

\* str::ends_with and str::contains
ends_with(s, suffix) ==
    Len(s) >= Len(suffix)
    /\ SubSeq(s, Len(s) - Len(suffix) + 1, Len(s)) = suffix
contains(s, pat) ==
    \E i \in 1..(Len(s) - Len(pat) + 1) : SubSeq(s, i, i + Len(pat) - 1) = pat

\* validate_ipc_path, rejecting a path that follows no naming convention
validate_ipc_path_strict(path, home) ==
    IF path = <<>>
    THEN [ result |-> Err("InvalidPath", "Path cannot be empty"),
           warned |-> FALSE ]
    ELSE LET expanded == expand_path(path, home)
         IN IF /\ ~ends_with(expanded, Chars(".ipc"))
               /\ ~contains(expanded, Chars("geth"))
               /\ ~contains(expanded, Chars("anvil"))
            THEN [ result |-> Err("InvalidPath", "not a socket path"),
                   warned |-> TRUE ]
            ELSE [ result |-> [tag |-> "Ok"], warned |-> FALSE ]

\* validate_ipc_path: the result, and whether the warning was logged
validate_ipc_path(path, home) ==
    IF path = <<>>
    THEN [ result |-> Err("InvalidPath", "Path cannot be empty"),
           warned |-> FALSE ]
    ELSE LET expanded == expand_path(path, home)
         IN [ result |-> [tag |-> "Ok"],
              warned |-> /\ ~ends_with(expanded, Chars(".ipc"))
                         /\ ~contains(expanded, Chars("geth"))
                         /\ ~contains(expanded, Chars("anvil")) ]

DEFAULT_IPC_PATHS ==
    << Chars("/tmp/anvil.ipc"), Chars("~/.foundry/anvil.ipc"),
       Chars("/var/run/geth.ipc"), Chars("~/.ethereum/geth.ipc") >>

\* socket_exists
socket_exists(path, home, fsys) == expand_path(path, home) \in fsys

\* find_ipc_socket, keeping the last of the paths that exist
find_ipc_socket_last(home, fsys) ==
    LET found == {i \in 1..Len(DEFAULT_IPC_PATHS) :
                    socket_exists(DEFAULT_IPC_PATHS[i], home, fsys)}
    IN IF found = {} THEN None
       ELSE Some(expand_path(
                DEFAULT_IPC_PATHS[CHOOSE i \in found : \A k \in found : k <= i],
                home))

\* find_ipc_socket: the loop over DEFAULT_IPC_PATHS, from path number i
RECURSIVE find_from(_, _, _)
find_from(i, home, fsys) ==
    IF i > Len(DEFAULT_IPC_PATHS) THEN None
    ELSE IF socket_exists(DEFAULT_IPC_PATHS[i], home, fsys)
    THEN Some(expand_path(DEFAULT_IPC_PATHS[i], home))
    ELSE find_from(i + 1, home, fsys)

find_ipc_socket(home, fsys) == find_from(1, home, fsys)

(***************************************************************************)
(* decoder.rs                                                              *)
(***************************************************************************)
\* the variants of alloy's TxEnvelope; extract_tx_fields names the first four
TxKinds == {"Legacy", "Eip2930", "Eip1559", "Eip4844", "Eip7702"}

\* alloy's TxKind, the to of a Legacy, Eip2930 or Eip1559 transaction
Call(to) == [call |-> TRUE, to |-> to]
Create == [call |-> FALSE]

\* TxKind::to
TxKind_to(kind) == IF kind.call THEN Some(kind.to) ELSE None

\* extract_tx_fields, taking the priority fee of an Eip1559 transaction
extract_tx_fields_tip(tx_envelope) ==
    LET tx == tx_envelope.tx
    IN CASE tx_envelope.kind \in {"Legacy", "Eip2930"} ->
              [ input |-> tx.input, to |-> TxKind_to(tx.to), value |-> tx.value,
                gas_price |-> tx.gas_price, nonce |-> tx.nonce,
                gas_limit |-> tx.gas_limit ]
         [] tx_envelope.kind = "Eip1559" ->
              [ input |-> tx.input, to |-> TxKind_to(tx.to), value |-> tx.value,
                gas_price |-> tx.max_priority_fee_per_gas, nonce |-> tx.nonce,
                gas_limit |-> tx.gas_limit ]
         [] tx_envelope.kind = "Eip4844" ->
              [ input |-> tx.input, to |-> Some(tx.to), value |-> tx.value,
                gas_price |-> tx.max_fee_per_gas, nonce |-> tx.nonce,
                gas_limit |-> tx.gas_limit ]
         [] OTHER ->
              [ input |-> <<>>, to |-> None, value |-> 0, gas_price |-> 0,
                nonce |-> 0, gas_limit |-> 0 ]

\* extract_tx_fields, keeping the input of an envelope of another variant
extract_tx_fields_keep_input(tx_envelope) ==
    LET tx == tx_envelope.tx
    IN CASE tx_envelope.kind \in {"Legacy", "Eip2930"} ->
              [ input |-> tx.input, to |-> TxKind_to(tx.to), value |-> tx.value,
                gas_price |-> tx.gas_price, nonce |-> tx.nonce,
                gas_limit |-> tx.gas_limit ]
         [] tx_envelope.kind = "Eip1559" ->
              [ input |-> tx.input, to |-> TxKind_to(tx.to), value |-> tx.value,
                gas_price |-> tx.max_fee_per_gas, nonce |-> tx.nonce,
                gas_limit |-> tx.gas_limit ]
         [] tx_envelope.kind = "Eip4844" ->
              [ input |-> tx.input, to |-> Some(tx.to), value |-> tx.value,
                gas_price |-> tx.max_fee_per_gas, nonce |-> tx.nonce,
                gas_limit |-> tx.gas_limit ]
         [] OTHER ->
              [ input |-> tx.input, to |-> None, value |-> 0, gas_price |-> 0,
                nonce |-> 0, gas_limit |-> 0 ]

\* extract_tx_fields: (input, to, value, gas_price, nonce, gas_limit).  The
\* to of an Eip4844 transaction is an address, not a TxKind
extract_tx_fields(tx_envelope) ==
    LET tx == tx_envelope.tx
    IN CASE tx_envelope.kind \in {"Legacy", "Eip2930"} ->
              [ input |-> tx.input, to |-> TxKind_to(tx.to), value |-> tx.value,
                gas_price |-> tx.gas_price, nonce |-> tx.nonce,
                gas_limit |-> tx.gas_limit ]
         [] tx_envelope.kind = "Eip1559" ->
              [ input |-> tx.input, to |-> TxKind_to(tx.to), value |-> tx.value,
                gas_price |-> tx.max_fee_per_gas, nonce |-> tx.nonce,
                gas_limit |-> tx.gas_limit ]
         [] tx_envelope.kind = "Eip4844" ->
              [ input |-> tx.input, to |-> Some(tx.to), value |-> tx.value,
                gas_price |-> tx.max_fee_per_gas, nonce |-> tx.nonce,
                gas_limit |-> tx.gas_limit ]
         [] OTHER ->
              [ input |-> <<>>, to |-> None, value |-> 0, gas_price |-> 0,
                nonce |-> 0, gas_limit |-> 0 ]

\* what alloy's Decodable::decode returns: a TxEnvelope or an error
RlpOk(tx_envelope) == [tag |-> "Ok", envelope |-> tx_envelope]
RlpErr(msg) == [tag |-> "Err", msg |-> msg]

\* Ok(DecodedTransaction)
Decoded(tx) == [tag |-> "Ok", kind |-> "DecodedTransaction", arg |-> tx]

\* the DecodedTransaction built from an envelope, the sender and the selector
DecodedFrom(tx_envelope, from, method_id) ==
    LET f == extract_tx_fields(tx_envelope)
    IN [ hash |-> tx_envelope.hash, from |-> from, to |-> f.to,
         value |-> f.value, gas_price |-> f.gas_price, input |-> f.input,
         method_id |-> method_id, dex_method |-> filter_transaction(f.input),
         nonce |-> f.nonce, gas_limit |-> f.gas_limit ]

\* decode_transaction, handing the empty buffer to the RLP decoder as well
decode_transaction_unchecked(rlp_bytes, from, decoded) ==
    IF decoded.tag = "Err"
    THEN [ result |-> Err("RlpDecode", decoded.msg), parsed |-> TRUE ]
    ELSE [ result |-> Decoded(DecodedFrom(decoded.envelope, from,
                        decoder_extract_method_id(
                            extract_tx_fields(decoded.envelope).input))),
           parsed |-> TRUE ]

\* decode_transaction, taking the selector from the head of the raw buffer
decode_transaction_raw_id(rlp_bytes, from, decoded) ==
    IF rlp_bytes = <<>>
    THEN [ result |-> Err("EmptyInput", "Empty input data"), parsed |-> FALSE ]
    ELSE IF decoded.tag = "Err"
    THEN [ result |-> Err("RlpDecode", decoded.msg), parsed |-> TRUE ]
    ELSE [ result |-> Decoded(DecodedFrom(decoded.envelope, from,
                        decoder_extract_method_id(rlp_bytes))),
           parsed |-> TRUE ]

\* decode_transaction, making a transaction of default fields of a buffer the
\* RLP decoder rejects
decode_transaction_lenient(rlp_bytes, from, decoded) ==
    IF rlp_bytes = <<>>
    THEN [ result |-> Err("EmptyInput", "Empty input data"), parsed |-> FALSE ]
    ELSE IF decoded.tag = "Err"
    THEN [ result |-> Decoded([ hash |-> Repeat(0, 32), from |-> from,
                                to |-> None, value |-> 0, gas_price |-> 0,
                                input |-> <<>>, method_id |-> None,
                                dex_method |-> None, nonce |-> 0,
                                gas_limit |-> 0 ]),
           parsed |-> TRUE ]
    ELSE [ result |-> Decoded(DecodedFrom(decoded.envelope, from,
                        decoder_extract_method_id(
                            extract_tx_fields(decoded.envelope).input))),
           parsed |-> TRUE ]

\* decode_transaction, refusing call data too short for a selector
decode_transaction_input_checked(rlp_bytes, from, decoded) ==
    IF rlp_bytes = <<>>
    THEN [ result |-> Err("EmptyInput", "Empty input data"), parsed |-> FALSE ]
    ELSE IF decoded.tag = "Err"
    THEN [ result |-> Err("RlpDecode", decoded.msg), parsed |-> TRUE ]
    ELSE IF Len(extract_tx_fields(decoded.envelope).input) < 4
    THEN [ result |-> Err("InputTooShort",
                          "Transaction input too short for method extraction"),
           parsed |-> TRUE ]
    ELSE [ result |-> Decoded(DecodedFrom(decoded.envelope, from,
                        decoder_extract_method_id(
                            extract_tx_fields(decoded.envelope).input))),
           parsed |-> TRUE ]

\* decode_transaction.  decoded is what alloy's Decodable::decode makes of
\* rlp_bytes, an error message or a TxEnvelope; parsed tells whether it was
\* called
decode_transaction(rlp_bytes, from, decoded) ==
    IF rlp_bytes = <<>>
    THEN [ result |-> Err("EmptyInput", "Empty input data"), parsed |-> FALSE ]
    ELSE IF decoded.tag = "Err"
    THEN [ result |-> Err("RlpDecode", decoded.msg), parsed |-> TRUE ]
    ELSE [ result |-> Decoded(DecodedFrom(decoded.envelope, from,
                        decoder_extract_method_id(
                            extract_tx_fields(decoded.envelope).input))),
           parsed |-> TRUE ]

(***************************************************************************)
(* publisher.rs: TransactionMessage                                        *)
(***************************************************************************)
DecDigits == <<"0", "1", "2", "3", "4", "5", "6", "7", "8", "9">>

\* to_string of an unsigned integer (u64, u128, U256): its decimal digits
RECURSIVE to_string(_)
to_string(n) ==
    IF n < 10 THEN DecDigits[n + 1]
    ELSE to_string(n \div 10) \o DecDigits[(n % 10) + 1]

\* the string made of a sequence of strings, halving the sequence
RECURSIVE Concat(_)
Concat(strs) ==
    IF Len(strs) = 0 THEN ""
    ELSE IF Len(strs) = 1 THEN strs[1]
    ELSE LET mid == Len(strs) \div 2
         IN Concat(SubSeq(strs, 1, mid))
            \o Concat(SubSeq(strs, mid + 1, Len(strs)))

\* format!("{:#x}", v) of an Address or a B256: 0x and the lower-case digits
lower_hex(bytes) == "0x" \o Concat(hex_encode(bytes))

\* TransactionMessage::from_decoded, giving a message for every transaction
from_decoded_always(tx, now) ==
    Some([ hash |-> lower_hex(tx.hash),
           from |-> lower_hex(tx.from),
           to |-> IF tx.to.some THEN lower_hex(tx.to.val) ELSE "",
           method |-> IF tx.dex_method.some THEN name(tx.dex_method.val)
                      ELSE "",
           method_id |-> IF tx.dex_method.some THEN hex(tx.dex_method.val)
                         ELSE "",
           value |-> to_string(tx.value),
           gas_price |-> to_string(tx.gas_price),
           timestamp |-> now ])

\* TransactionMessage::from_decoded, rendering an absent recipient as the
\* zero address
from_decoded_zero_to(tx, now) ==
    IF ~tx.dex_method.some THEN None
    ELSE LET dex_method == tx.dex_method.val
         IN Some([ hash |-> lower_hex(tx.hash),
                   from |-> lower_hex(tx.from),
                   to |-> lower_hex(IF tx.to.some THEN tx.to.val
                                                  ELSE Repeat(0, 20)),
                   method |-> name(dex_method),
                   method_id |-> hex(dex_method),
                   value |-> to_string(tx.value),
                   gas_price |-> to_string(tx.gas_price),
                   timestamp |-> now ])

\* TransactionMessage::from_decoded; now is the reading of
\* current_timestamp_millis(), milliseconds since the epoch
from_decoded(tx, now) ==
    IF ~tx.dex_method.some THEN None
    ELSE LET dex_method == tx.dex_method.val
         IN Some([ hash |-> lower_hex(tx.hash),
                   from |-> lower_hex(tx.from),
                   to |-> IF tx.to.some THEN lower_hex(tx.to.val) ELSE "",
                   method |-> name(dex_method),
                   method_id |-> hex(dex_method),
                   value |-> to_string(tx.value),
                   gas_price |-> to_string(tx.gas_price),
                   timestamp |-> now ])

\* current_timestamp_millis; clock is SystemTime::now() in milliseconds from
\* UNIX_EPOCH, negative when the system clock is set before it:
\* duration_since is then an error, and expect panics
current_timestamp_millis(clock) ==
    IF clock < 0 THEN Panics("Time went backwards") ELSE Returns(clock)

\* TransactionMessage::from_decoded with its reading of the clock: the
\* timestamp is read only after the ? on dex_method
from_decoded_now(tx, clock) ==
    IF ~tx.dex_method.some THEN Returns(None)
    ELSE LET timestamp == current_timestamp_millis(clock)
         IN IF timestamp.panic THEN timestamp
            ELSE Returns(from_decoded(tx, timestamp.val))

(***************************************************************************)
(* publisher.rs: the JSON form of a TransactionMessage, as serde_json      *)
(* writes and reads it for the derived Serialize and Deserialize           *)
(***************************************************************************)
JsonOk(v) == [tag |-> "Ok", val |-> v]
JsonErr(msg) == [tag |-> "Err", kind |-> "Serialization", msg |-> msg]

\* a character inside a JSON string: quote, backslash and the control
\* characters are written escaped
JsonEscape(c) ==
    CASE c = "\"" -> "\\\""
      [] c = "\\" -> "\\\\"
      [] c = "\n" -> "\\n"
      [] c = "\t" -> "\\t"
      [] c = "\r" -> "\\r"
      [] OTHER -> c

escape(str) == Concat([i \in 1..Len(str) |-> JsonEscape(SubSeq(str, i, i))])

\* a string value
JsonString(str) == "\"" \o escape(str) \o "\""

\* a string value written without escaping
JsonString_raw(str) == "\"" \o str \o "\""

\* to_json with the strings written as they are
to_json_raw(m) ==
    JsonOk("{\"hash\":" \o JsonString_raw(m.hash)
           \o ",\"from\":" \o JsonString_raw(m.from)
           \o ",\"to\":" \o JsonString_raw(m.to)
           \o ",\"method\":" \o JsonString_raw(m.method)
           \o ",\"methodId\":" \o JsonString_raw(m.method_id)
           \o ",\"value\":" \o JsonString_raw(m.value)
           \o ",\"gasPrice\":" \o JsonString_raw(m.gas_price)
           \o ",\"timestamp\":" \o to_string(m.timestamp)
           \o "}")

\* TransactionMessage::to_json: serde_json::to_string of the struct, the
\* fields in declaration order under their camelCase names, without spaces
to_json(m) ==
    JsonOk("{\"hash\":" \o JsonString(m.hash)
           \o ",\"from\":" \o JsonString(m.from)
           \o ",\"to\":" \o JsonString(m.to)
           \o ",\"method\":" \o JsonString(m.method)
           \o ",\"methodId\":" \o JsonString(m.method_id)
           \o ",\"value\":" \o JsonString(m.value)
           \o ",\"gasPrice\":" \o JsonString(m.gas_price)
           \o ",\"timestamp\":" \o to_string(m.timestamp)
           \o "}")

\* the names of the fields in the JSON text: rename_all = "camelCase"
JsonKeys == {"hash", "from", "to", "method", "methodId", "value", "gasPrice",
             "timestamp"}

\* the character at position i of the text, "" past its end
Char(str, i) == IF i <= Len(str) THEN SubSeq(str, i, i) ELSE ""

Whitespace == {" ", "\n", "\t", "\r"}

\* the first position from i on that holds no white space
RECURSIVE skip_ws(_, _)
skip_ws(str, i) ==
    IF Char(str, i) \in Whitespace THEN skip_ws(str, i + 1) ELSE i

\* a value that cannot be read; a value read, and the position after it
ParseErr == [ok |-> FALSE]
Parsed(v, next) == [ok |-> TRUE, val |-> v, next |-> next]

\* the character an escape stands for, "" for the escapes not modelled (b, f,
\* u) and the invalid ones
Unescape(c) ==
    CASE c = "\"" -> "\""
      [] c = "\\" -> "\\"
      [] c = "/" -> "/"
      [] c = "n" -> "\n"
      [] c = "t" -> "\t"
      [] c = "r" -> "\r"
      [] OTHER -> ""

\* the number of backslashes that end just before position i
BackslashRun(str, i) ==
    IF Char(str, i - 1) # "\\" THEN 0
    ELSE LET stops == {k \in 0..(i - 1) : k = 0 \/ Char(str, k) # "\\"}
         IN (i - 1) - (CHOOSE m \in stops : \A k \in stops : k <= m)

\* the character at i follows the backslash that starts an escape
IsEscaped(str, i) == BackslashRun(str, i) % 2 = 1

\* a string, from the position after its opening quote: up to the first
\* quote that is not escaped, with the escapes replaced; a raw control
\* character, an escape not known or the end of the text inside it is an
\* error
parse_str(str, i) ==
    LET closers == {j \in i..Len(str) :
                      Char(str, j) = "\"" /\ ~IsEscaped(str, j)}
    IN IF closers = {} THEN ParseErr
       ELSE LET close == CHOOSE j \in closers : \A k \in closers : j <= k
                bad(q) == IF IsEscaped(str, q)
                          THEN Unescape(Char(str, q)) = ""
                          ELSE Char(str, q) \in {"\n", "\t", "\r"}
                piece(q) == IF IsEscaped(str, q) THEN Unescape(Char(str, q))
                            ELSE IF Char(str, q) = "\\" THEN ""
                            ELSE Char(str, q)
            IN IF \E q \in i..(close - 1) : bad(q) THEN ParseErr
               ELSE Parsed(Concat([p \in 1..(close - i) |-> piece(i + p - 1)]),
                           close + 1)

IsDigit(c) == \E d \in 1..10 : DecDigits[d] = c
DigitValue(c) == (CHOOSE d \in 1..10 : DecDigits[d] = c) - 1

RECURSIVE parse_digits(_, _, _)
parse_digits(str, i, acc) ==
    IF IsDigit(Char(str, i))
    THEN parse_digits(str, i + 1, acc * 10 + DigitValue(Char(str, i)))
    ELSE Parsed(acc, i)

\* a u64: digits without a sign, a leading zero, a fraction or an exponent
parse_u64(str, i) ==
    IF ~IsDigit(Char(str, i)) THEN ParseErr
    ELSE IF Char(str, i) = "0" /\ IsDigit(Char(str, i + 1)) THEN ParseErr
    ELSE LET r == parse_digits(str, i, 0)
         IN IF Char(str, r.next) \in {".", "e", "E"} THEN ParseErr ELSE r

\* the members of the object, from the first character of a key: a known
\* field is read as its type (timestamp a u64, the others strings) and may
\* come once, an unknown field (a string or a number here) is skipped
RECURSIVE parse_members(_, _, _)
parse_members(str, i, found) ==
    IF Char(str, i) # "\"" THEN ParseErr
    ELSE LET k == parse_str(str, i + 1)
         IN IF ~k.ok THEN ParseErr
            ELSE LET colon == skip_ws(str, k.next)
                     at == skip_ws(str, colon + 1)
                     v == IF k.val = "timestamp" THEN parse_u64(str, at)
                          ELSE IF Char(str, at) = "\""
                          THEN parse_str(str, at + 1)
                          ELSE IF k.val \in JsonKeys THEN ParseErr
                          ELSE parse_u64(str, at)
                 IN IF Char(str, colon) # ":" \/ ~v.ok THEN ParseErr
                    ELSE IF k.val \in JsonKeys /\ found[k.val].some
                    THEN ParseErr
                    ELSE LET found2 == IF k.val \in JsonKeys
                                       THEN [found EXCEPT ![k.val] = Some(v.val)]
                                       ELSE found
                             after == skip_ws(str, v.next)
                         IN IF Char(str, after) = ","
                            THEN parse_members(str, skip_ws(str, after + 1),
                                               found2)
                            ELSE IF Char(str, after) = "}"
                            THEN Parsed(found2, after + 1)
                            ELSE ParseErr

\* TransactionMessage::from_json: serde_json::from_str into the struct.  The
\* text is one object and white space; every field must be there
from_json(json) ==
    LET open == skip_ws(json, 1)
        first == skip_ws(json, open + 1)
        none == [k \in JsonKeys |-> None]
        r == IF Char(json, open) # "{" THEN ParseErr
             ELSE IF Char(json, first) = "}" THEN Parsed(none, first + 1)
             ELSE parse_members(json, first, none)
    IN IF ~r.ok THEN JsonErr("syntax")
       ELSE IF skip_ws(json, r.next) <= Len(json)
       THEN JsonErr("trailing characters")
       ELSE IF \E k \in JsonKeys : ~r.val[k].some THEN JsonErr("missing field")
       ELSE JsonOk([ hash |-> r.val["hash"].val,
                     from |-> r.val["from"].val,
                     to |-> r.val["to"].val,
                     method |-> r.val["method"].val,
                     method_id |-> r.val["methodId"].val,
                     value |-> r.val["value"].val,
                     gas_price |-> r.val["gasPrice"].val,
                     timestamp |-> r.val["timestamp"].val ])

(***************************************************************************)
(* publisher.rs: Publisher                                                 *)
(***************************************************************************)
DEFAULT_CHANNEL == "mempool_alpha"

\* what a publish call is seen to have done: its result, the messages it
\* serialized and the PUBLISH commands it issued on the connection
Published(result, serialized, sent) ==
    [result |-> result, serialized |-> serialized, sent |-> sent]

\* Publisher::publish_message on a publisher with this channel; transport is
\* what the connection answers to the PUBLISH command, the number of
\* subscribers or an error
publish_message(channel, message, transport) ==
    LET json == to_json(message)
    IN IF json.tag = "Err"
       THEN Published(Err("Serialization", json.msg), 1, <<>>)
       ELSE LET command == [channel |-> channel, payload |-> json.val]
            IN IF transport.tag = "Err"
               THEN Published(Err("Connection", transport.msg), 1, <<command>>)
               ELSE Published([tag |-> "Ok", kind |-> "subscribers",
                               arg |-> transport.subscribers],
                              1, <<command>>)

\* Publisher::publish, sending on the default channel whatever the
\* publisher's own
publish_default_channel(channel, tx, now, transport) ==
    LET message == from_decoded(tx, now)
    IN IF ~message.some
       THEN Published(Err("NotDexTransaction", ""), 0, <<>>)
       ELSE publish_message(DEFAULT_CHANNEL, message.val, transport)

\* Publisher::publish on a publisher with this channel
publish_tx(channel, tx, now, transport) ==
    LET message == from_decoded(tx, now)
    IN IF ~message.some
       THEN Published(Err("NotDexTransaction", ""), 0, <<>>)
       ELSE publish_message(channel, message.val, transport)

(***************************************************************************)
(* The stateless operations, each applied to an input drawn from a bounded *)
(* set                                                                     *)
(***************************************************************************)
\* an operation about to be applied to an argument, and the application done
Asked(fn, arg) == [fn |-> fn, arg |-> arg, done |-> FALSE]
Applied(fn, arg, out) == [fn |-> fn, arg |-> arg, done |-> TRUE, out |-> out]
IsAsked(fn) == call.fn = fn /\ ~call.done

\* configurations backoff_delay is applied to: the defaults, the one of
\* test_ipc_config_backoff_delay_caps_at_max, and initial delays and maxima
\* on either side of them, 0 included; every product initial_backoff_ms * 2^10
\* is far below 2^64
BackoffConfigs ==
    [ socket_path : {<<"/", "a">>},
      max_reconnect_attempts : {MAX_RECONNECT_ATTEMPTS},
      initial_backoff_ms : {0, 1, INITIAL_BACKOFF_MS, 1500},
      max_backoff_ms : {0, 250, 1000, MAX_BACKOFF_MS, 200000},
      timeout_ms : {CONNECTION_TIMEOUT_MS} ]

\* attempt numbers: the first ones, the ones around the cap, and the 20 of
\* the test
Attempts == (0..MaxAttempt) \cup {20}

\* a call of IpcConfig::backoff_delay
BackoffDelay ==
    /\ IsAsked("backoff_delay")
    /\ call' = Applied(call.fn, call.arg,
                       backoff_delay(call.arg.config, call.arg.attempt))
    /\ UNCHANGED pipeVars
    /\ UNCHANGED ipcVars
    /\ UNCHANGED orchVars

\* 4-byte values: the 6 selectors, the all-zero one, ERC-20 transfer
\* (0xa9059cbb) and approve (0x095ea7b3), 0xffffffff, and a selector with its
\* last byte, its first byte or its byte order changed
MethodIdSamples ==
    { selector(m) : m \in DexMethodIds }
    \cup { <<0, 0, 0, 0>>, <<169, 5, 156, 187>>, <<9, 94, 167, 179>>,
           <<255, 255, 255, 255>>, <<56, 237, 23, 58>>, <<57, 237, 23, 57>>,
           <<57, 23, 237, 56>> }

\* what follows the first 4 bytes of a buffer: nothing, zero bytes, other
\* bytes, another selector
Trailers == { <<>>, <<0, 0>>, <<255, 1, 2>>, <<243, 5, 215, 25>> }

\* call data: every sample followed by every trailer, and every sample cut to
\* 0..3 bytes
Calldatas ==
    { id \o t : id \in MethodIdSamples, t \in Trailers }
    \cup { SubSeq(id, 1, k) : id \in MethodIdSamples, k \in 0..3 }

\* a call of filter_transaction
FilterTransaction ==
    /\ IsAsked("filter_transaction")
    /\ call' = Applied(call.fn, call.arg, filter_transaction(call.arg))
    /\ UNCHANGED pipeVars
    /\ UNCHANGED ipcVars
    /\ UNCHANGED orchVars

\* is_dex_method and get_dex_method called on the same 4 bytes
LookupMethod ==
    /\ IsAsked("lookup")
    /\ call' = Applied(call.fn, call.arg,
                       [ is_dex_method |-> is_dex_method(call.arg),
                         get_dex_method |-> get_dex_method(call.arg) ])
    /\ UNCHANGED pipeVars
    /\ UNCHANGED ipcVars
    /\ UNCHANGED orchVars

\* the three tables read for one DexMethodId: its selector, its name, its
\* hex string, the lookup of its selector, and DEX_METHODS.len()
DexMethodIdTables ==
    /\ IsAsked("dex_method_id")
    /\ call' = Applied(call.fn, call.arg,
                       [ selector |-> selector(call.arg),
                         name |-> name(call.arg),
                         hex |-> hex(call.arg),
                         get_dex_method |->
                             get_dex_method(selector(call.arg)),
                         len |-> Cardinality(DEX_METHODS) ])
    /\ UNCHANGED pipeVars
    /\ UNCHANGED ipcVars
    /\ UNCHANGED orchVars

\* filter::extract_method_id and decoder::extract_method_id called on the
\* same buffer
ExtractMethodId ==
    /\ IsAsked("extract_method_id")
    /\ call' = Applied(call.fn, call.arg,
                       [ filter |-> extract_method_id(call.arg),
                         decoder |-> decoder_extract_method_id(call.arg) ])
    /\ UNCHANGED pipeVars
    /\ UNCHANGED ipcVars
    /\ UNCHANGED orchVars

\* senders: Address::repeat_byte of two bytes
Senders == { Repeat(17, 20), Repeat(171, 20) }

\* call data carried by the sample transactions: none, 3 bytes, a selector
\* alone, a selector with parameters, an ERC-20 transfer, a near miss
TxInputs ==
    { <<>>, ShortCalldata, selector("SwapExactTokensForTokens"),
      DexCalldata("AddLiquidityEth", 2), NonDexCalldata,
      <<56, 237, 23, 58, 0, 0>> }

\* a TxEnvelope: the variant, its hash, and the fields of its transaction
\* that tell the variants apart or that extract_tx_fields reads.  to is a
\* TxKind in the first three variants and an address in the last two
TxEnvelope(kind, input, to, h) ==
    [ kind |-> kind,
      hash |-> Repeat(h, 32),
      tx |-> CASE kind = "Legacy" ->
                    [ input |-> input, to |-> to, value |-> 1000,
                      gas_price |-> 7, nonce |-> 3, gas_limit |-> 21000 ]
               [] kind = "Eip2930" ->
                    [ input |-> input, to |-> to, value |-> 1000,
                      gas_price |-> 7, nonce |-> 3, gas_limit |-> 21000,
                      access_list |-> <<>> ]
               [] kind = "Eip1559" ->
                    [ input |-> input, to |-> to, value |-> 1000,
                      max_fee_per_gas |-> 9, max_priority_fee_per_gas |-> 2,
                      nonce |-> 3, gas_limit |-> 21000, access_list |-> <<>> ]
               [] kind = "Eip4844" ->
                    [ input |-> input, to |-> to, value |-> 1000,
                      max_fee_per_gas |-> 9, max_priority_fee_per_gas |-> 2,
                      nonce |-> 3, gas_limit |-> 21000, access_list |-> <<>>,
                      max_fee_per_blob_gas |-> 1,
                      blob_versioned_hashes |-> <<>> ]
               [] kind = "Eip7702" ->
                    [ input |-> input, to |-> to, value |-> 1000,
                      max_fee_per_gas |-> 9, max_priority_fee_per_gas |-> 2,
                      nonce |-> 3, gas_limit |-> 21000, access_list |-> <<>>,
                      authorization_list |-> <<>> ] ]

\* the sample envelopes: each variant with each call data, as a call and
\* (where the variant has a TxKind) as a contract creation
TxEnvelopes ==
    { TxEnvelope(k, input, Call(Repeat(34, 20)), 200) :
        k \in {"Legacy", "Eip2930", "Eip1559"}, input \in TxInputs }
    \cup { TxEnvelope(k, input, Create, 201) :
             k \in {"Legacy", "Eip2930", "Eip1559"}, input \in TxInputs }
    \cup { TxEnvelope(k, input, Repeat(34, 20), 202) :
             k \in {"Eip4844", "Eip7702"}, input \in TxInputs }

\* the buffers handed to decode_transaction with what alloy's decoder makes
\* of each: the empty buffer and the 4 bytes 0xff of the tests, which it
\* rejects, a typed envelope of a type it does not know (5), which it
\* rejects too, and the encodings of the sample envelopes.  The encoding
\* itself is not modelled: a non-empty buffer stands for it
RlpBuffers ==
    { [ rlp_bytes |-> <<>>, decoded |-> RlpErr("input too short") ],
      [ rlp_bytes |-> <<255, 255, 255, 255>>,
        decoded |-> RlpErr("unexpected length") ],
      [ rlp_bytes |-> <<5, 192>>, decoded |-> RlpErr("unexpected tx type") ] }
    \cup { [ rlp_bytes |-> <<248>> \o env.tx.input, decoded |-> RlpOk(env) ] :
             env \in TxEnvelopes }

\* a call of decode_transaction
DecodeTransaction ==
    /\ IsAsked("decode_transaction")
    /\ call' = Applied(call.fn, call.arg,
                       decode_transaction(call.arg.rlp_bytes, call.arg.from,
                                          call.arg.decoded))
    /\ UNCHANGED pipeVars
    /\ UNCHANGED ipcVars
    /\ UNCHANGED orchVars

\* readings of the clock, in milliseconds since the epoch
Nows == {0, 1234567890}

\* the router address of the tests, 7a250d5630B4cF539739dF2C5dAcb4c659F2488D
ROUTER ==
    << 122, 37, 13, 86, 48, 180, 207, 83, 151, 57, 223, 44, 93, 172, 180, 198,
       89, 242, 72, 141 >>

\* a DecodedTransaction as the tests of publisher.rs build it: zero hash and
\* sender, the selector of the operation as input
TestTransaction(to, method_id, dex_method) ==
    [ hash |-> Repeat(0, 32), from |-> Repeat(0, 20), to |-> to,
      value |-> 0, gas_price |-> 0,
      input |-> IF method_id.some THEN method_id.val ELSE <<>>,
      method_id |-> method_id, dex_method |-> dex_method,
      nonce |-> 0, gas_limit |-> 21000 ]

\* the transactions handed to from_decoded and publish: what
\* decode_transaction makes of the sample envelopes, and transactions built
\* field by field: each operation, a contract creation, an ERC-20 transfer,
\* one without call data, and one whose dex_method is not the operation of
\* its method_id (the fields are public)
DecodedSamples ==
    { DecodedFrom(env, Repeat(17, 20),
                  decoder_extract_method_id(extract_tx_fields(env).input)) :
        env \in TxEnvelopes }
    \cup { TestTransaction(Some(Repeat(0, 20)), Some(selector(m)), Some(m)) :
             m \in DexMethodIds }
    \cup { TestTransaction(None, Some(selector("SwapExactTokensForTokens")),
                           Some("SwapExactTokensForTokens")),
           TestTransaction(Some(Repeat(0, 20)), Some(<<169, 5, 156, 187>>),
                           None),
           TestTransaction(Some(Repeat(0, 20)), None, None),
           TestTransaction(Some(Repeat(0, 20)), Some(<<169, 5, 156, 187>>),
                           Some("AddLiquidity")),
           TestTransaction(Some(ROUTER),
                           Some(selector("SwapExactTokensForTokens")),
                           Some("SwapExactTokensForTokens")) }

\* a call of TransactionMessage::from_decoded
FromDecoded ==
    /\ IsAsked("from_decoded")
    /\ call' = Applied(call.fn, call.arg,
                       from_decoded(call.arg.tx, call.arg.now))
    /\ UNCHANGED pipeVars
    /\ UNCHANGED ipcVars
    /\ UNCHANGED orchVars

\* channels a Publisher is made with, and the answers of the connection
Channels == {DEFAULT_CHANNEL, "custom_channel"}
TransportAnswers ==
    { [tag |-> "Ok", subscribers |-> 0], [tag |-> "Ok", subscribers |-> 2],
      [tag |-> "Err", msg |-> "broken pipe"] }

\* a call of Publisher::publish
Publish ==
    /\ IsAsked("publish")
    /\ call' = Applied(call.fn, call.arg,
                       publish_tx(call.arg.channel, call.arg.tx, call.arg.now,
                                  call.arg.transport))
    /\ UNCHANGED pipeVars
    /\ UNCHANGED ipcVars
    /\ UNCHANGED orchVars

\* strings a field of a TransactionMessage may hold: the fields are public,
\* so any string, with quotes, backslashes, line breaks or JSON in it
FieldStrings ==
    { "", "0x1234", "a\"b", "c\\d", "\\\"", "line\nbreak",
      "\"to\":\"x\"," }

\* the messages serialized and read back: built field by field, and the ones
\* from_decoded makes of the sample transactions
MessageSamples ==
    { [ hash |-> h, from |-> "0xabcd", to |-> t,
        method |-> "swapExactTokensForTokens", method_id |-> "0x38ed1739",
        value |-> v, gas_price |-> "2000", timestamp |-> ts ] :
        h \in FieldStrings, t \in {"", "a\"b"}, v \in {"0", "\\"},
        ts \in Nows }
    \cup { from_decoded(tx, 1234567890).val :
             tx \in {d \in DecodedSamples : d.dex_method.some} }

\* to_json, and from_json on the text it gave
JsonRoundTrip ==
    /\ IsAsked("json_round_trip")
    /\ LET json == to_json(call.arg)
       IN call' = Applied(call.fn, call.arg,
                          [ json |-> json,
                            back |-> IF json.tag = "Ok"
                                     THEN from_json(json.val) ELSE json ])
    /\ UNCHANGED pipeVars
    /\ UNCHANGED ipcVars
    /\ UNCHANGED orchVars

\* configurations of full width: the defaults, an initial backoff of 2^54
\* and of u64::MAX, a maximum of u64::MAX
BackoffConfigs64 ==
    { [initial_backoff_ms |-> i, max_backoff_ms |-> m] :
        i \in { u64(0), u64(INITIAL_BACKOFF_MS), <<0, 0, 0, 64>>, U64_MAX },
        m \in { u64(MAX_BACKOFF_MS), U64_MAX } }

\* a call of IpcConfig::backoff_delay in a build with or without overflow
\* checks
BackoffDelayU64 ==
    /\ IsAsked("backoff_delay_u64")
    /\ call' = Applied(call.fn, call.arg,
                       backoff_delay_u64(call.arg.config, call.arg.attempt,
                                         call.arg.overflow_checks))
    /\ UNCHANGED pipeVars
    /\ UNCHANGED ipcVars
    /\ UNCHANGED orchVars

\* IpcConfig::backoff_delay called for an attempt and for the one after it,
\* in a build without overflow checks: the multiplication wraps
BackoffDelayPair ==
    /\ IsAsked("backoff_delay_pair")
    /\ call' = Applied(call.fn, call.arg,
                       [ delay |-> backoff_delay_u64(call.arg.config,
                                                     call.arg.attempt, FALSE),
                         next_delay |->
                             backoff_delay_u64(call.arg.config,
                                               call.arg.attempt + 1, FALSE) ])
    /\ UNCHANGED pipeVars
    /\ UNCHANGED ipcVars
    /\ UNCHANGED orchVars

\* the system clock, in milliseconds from the epoch
Clocks == {-1, 0, 1234567890}

\* a call of TransactionMessage::from_decoded at a time of the system clock
FromDecodedNow ==
    /\ IsAsked("from_decoded_now")
    /\ call' = Applied(call.fn, call.arg,
                       from_decoded_now(call.arg.tx, call.arg.clock))
    /\ UNCHANGED pipeVars
    /\ UNCHANGED ipcVars
    /\ UNCHANGED orchVars

\* paths handed to validate_ipc_path: the empty one, the ones of the tests,
\* and ones that follow no naming convention, before or after expansion
ValidatedPaths ==
    { Chars(""), Chars("/tmp/anvil.ipc"), Chars("/var/run/geth.ipc"),
      Chars("~/.foundry/anvil.ipc"), Chars("/some/random/path"), Chars("x"),
      Chars("~/sock"), Chars(" "), Chars(".ipc") }

\* home directories of the caller
Homes == { None, Some(Chars("/home/u")), Some(Chars("/home/geth")) }

\* a call of validate_ipc_path
ValidateIpcPath ==
    /\ IsAsked("validate_ipc_path")
    /\ call' = Applied(call.fn, call.arg,
                       validate_ipc_path(call.arg.path, call.arg.home))
    /\ UNCHANGED pipeVars
    /\ UNCHANGED ipcVars
    /\ UNCHANGED orchVars

\* paths that may exist when find_ipc_socket looks: the candidates as
\* expanded for the home /home/u, and the two with a tilde taken literally
FoundPaths ==
    { Chars("/tmp/anvil.ipc"), Chars("/home/u/.foundry/anvil.ipc"),
      Chars("/var/run/geth.ipc"), Chars("/home/u/.ethereum/geth.ipc"),
      Chars("~/.foundry/anvil.ipc"), Chars("~/.ethereum/geth.ipc") }

\* a call of find_ipc_socket
FindIpcSocket ==
    /\ IsAsked("find_ipc_socket")
    /\ call' = Applied(call.fn, call.arg,
                       find_ipc_socket(call.arg.home, call.arg.fs))
    /\ UNCHANGED pipeVars
    /\ UNCHANGED ipcVars
    /\ UNCHANGED orchVars

\* paths handed to expand_path: the ones of the tests, with the tilde in
\* front, in the middle, in both places, alone and before another name; the
\* home directories are those of Homes and one with a tilde in its name
ExpandedPaths ==
    { Chars("~/test/path.ipc"), Chars("/tmp/test.ipc"),
      Chars("/some/~path/test.ipc"), Chars("~/a~b/~/c"), Chars("~"),
      Chars("~user/x"), Chars("~/"), Chars(""), Chars("/~/x"), Chars("a/~/") }

\* a call of expand_path
ExpandPath ==
    /\ IsAsked("expand_path")
    /\ call' = Applied(call.fn, call.arg,
                       expand_path(call.arg.path, call.arg.home))
    /\ UNCHANGED pipeVars
    /\ UNCHANGED ipcVars
    /\ UNCHANGED orchVars

(***************************************************************************)
(* The Pipeline Orchestrator (spec.md 4.5 and 5): one consumption path     *)
(* that reads a transaction, then decodes, filters, formats and publishes  *)
(* it before it reads the next, and a graceful stop                        *)
(***************************************************************************)
\* the transactions the transport delivers: the bytes, the sender recovered
\* by the transport and what alloy's decoder makes of the bytes.  An empty
\* buffer, a buffer the decoder rejects, an operation of the table, an
\* ERC-20 transfer, and an envelope of a variant extract_tx_fields does not
\* name
PendingSamples ==
    { [ rlp_bytes |-> <<>>, from |-> Repeat(17, 20),
        decoded |-> RlpErr("input too short") ],
      [ rlp_bytes |-> <<255, 255, 255, 255>>, from |-> Repeat(17, 20),
        decoded |-> RlpErr("unexpected length") ],
      [ rlp_bytes |-> <<248>> \o DexCalldata("AddLiquidityEth", 2),
        from |-> Repeat(171, 20),
        decoded |-> RlpOk(TxEnvelope("Eip1559",
                                     DexCalldata("AddLiquidityEth", 2),
                                     Call(Repeat(34, 20)), 200)) ],
      [ rlp_bytes |-> <<248>> \o NonDexCalldata, from |-> Repeat(17, 20),
        decoded |-> RlpOk(TxEnvelope("Legacy", NonDexCalldata,
                                     Call(Repeat(34, 20)), 200)) ],
      [ rlp_bytes |-> <<248>> \o selector("AddLiquidity"),
        from |-> Repeat(17, 20),
        decoded |-> RlpOk(TxEnvelope("Eip7702", selector("AddLiquidity"),
                                     Repeat(34, 20), 202)) ] }

\* the streams of at most MaxStream transactions
Streams == UNION { [1..k -> PendingSamples] : k \in 0..MaxStream }

\* the stop signal has not been given
Running == [signalled |-> FALSE]

\* what became of transaction number tx
Outcome(tx, what) == [tx |-> tx, what |-> what]

\* the socket read, taking the next transaction also after a stop
ReadNext_unstoppable ==
    /\ stage = "idle"
    /\ stream # <<>>
    /\ in_flight' = Some([pending |-> Head(stream)])
    /\ stream' = Tail(stream)
    /\ processedCount' = processedCount + 1
    /\ stage' = "decode"
    /\ UNCHANGED <<filteredCount, publishedCount, errorCount, issued, outcomes,
                   stop>>
    /\ UNCHANGED pipeVars
    /\ UNCHANGED ipcVars
    /\ UNCHANGED fnVars

\* the socket read: the next transaction is taken from the transport, unless
\* a stop has been acknowledged
ReadNext ==
    /\ stage = "idle"
    /\ ~stop.signalled
    /\ stream # <<>>
    /\ in_flight' = Some([pending |-> Head(stream)])
    /\ stream' = Tail(stream)
    /\ processedCount' = processedCount + 1
    /\ stage' = "decode"
    /\ UNCHANGED <<filteredCount, publishedCount, errorCount, issued, outcomes,
                   stop>>
    /\ UNCHANGED pipeVars
    /\ UNCHANGED ipcVars
    /\ UNCHANGED fnVars

\* step 1: decode; on a decode failure the error counter is incremented and
\* the transaction dropped
DecodeStage ==
    /\ stage = "decode"
    /\ LET p == in_flight.val.pending
           r == decode_transaction(p.rlp_bytes, p.from, p.decoded).result
       IN IF r.tag = "Err"
          THEN /\ errorCount' = errorCount + 1
               /\ outcomes' = Append(outcomes,
                                     Outcome(processedCount, "decode_error"))
               /\ in_flight' = None
               /\ stage' = "idle"
          ELSE /\ in_flight' = Some([tx |-> r.arg])
               /\ stage' = "filter"
               /\ UNCHANGED <<errorCount, outcomes>>
    /\ UNCHANGED <<stream, processedCount, filteredCount, publishedCount,
                   issued, stop>>
    /\ UNCHANGED pipeVars
    /\ UNCHANGED ipcVars
    /\ UNCHANGED fnVars

\* step 2: filter via the decoded dex_method; a transaction without one is
\* dropped silently and not counted
FilterStage ==
    /\ stage = "filter"
    /\ IF in_flight.val.tx.dex_method.some
       THEN /\ filteredCount' = filteredCount + 1
            /\ stage' = "publish"
            /\ UNCHANGED <<in_flight, outcomes>>
       ELSE /\ outcomes' = Append(outcomes, Outcome(processedCount, "dropped"))
            /\ in_flight' = None
            /\ stage' = "idle"
            /\ UNCHANGED filteredCount
    /\ UNCHANGED <<stream, processedCount, publishedCount, errorCount, issued,
                   stop>>
    /\ UNCHANGED pipeVars
    /\ UNCHANGED ipcVars
    /\ UNCHANGED fnVars

\* step 3: format and publish (Publisher::publish on the default channel); a
\* publish failure increments the error counter and is surfaced for this
\* transaction only
PublishStage ==
    /\ stage = "publish"
    /\ \E transport \in TransportAnswers, now \in Nows :
          LET p == publish_tx(DEFAULT_CHANNEL, in_flight.val.tx, now, transport)
              commands == [ i \in 1..Len(p.sent) |->
                              [ tx |-> processedCount,
                                after_stop |-> stop.signalled,
                                channel |-> p.sent[i].channel,
                                payload |-> p.sent[i].payload ] ]
          IN /\ issued' = issued \o commands
             /\ IF p.result.tag = "Ok"
                THEN /\ publishedCount' = publishedCount + 1
                     /\ outcomes' = Append(outcomes,
                                      Outcome(processedCount, "published"))
                     /\ UNCHANGED errorCount
                ELSE /\ errorCount' = errorCount + 1
                     /\ outcomes' = Append(outcomes,
                                      Outcome(processedCount, "publish_error"))
                     /\ UNCHANGED publishedCount
    /\ in_flight' = None
    /\ stage' = "idle"
    /\ UNCHANGED <<stream, processedCount, filteredCount, stop>>
    /\ UNCHANGED pipeVars
    /\ UNCHANGED ipcVars
    /\ UNCHANGED fnVars

\* the stop signal is acknowledged: the transaction in flight, if there is
\* one, and the number of transactions read so far are noted
StopSignal ==
    /\ ~stop.signalled
    /\ stage # "stopped"
    /\ stop' = [ signalled |-> TRUE, read |-> processedCount,
                 in_flight |-> IF stage = "idle" THEN 0 ELSE processedCount ]
    /\ UNCHANGED <<stream, stage, in_flight, processedCount, filteredCount,
                   publishedCount, errorCount, issued, outcomes>>
    /\ UNCHANGED pipeVars
    /\ UNCHANGED ipcVars
    /\ UNCHANGED fnVars

\* after a stop, once no transaction is in flight, the pipeline ceases
\* consuming and releases the transport handle
Release ==
    /\ stop.signalled
    /\ stage = "idle"
    /\ stage' = "stopped"
    /\ UNCHANGED <<stream, in_flight, processedCount, filteredCount,
                   publishedCount, errorCount, issued, outcomes, stop>>
    /\ UNCHANGED pipeVars
    /\ UNCHANGED ipcVars
    /\ UNCHANGED fnVars

(***************************************************************************)
(* Specifications                                                          *)
(***************************************************************************)
\* MockRedisPublisher::new and MockPipeline::new
PipelineInit ==
    /\ messages = <<>>
    /\ fail_next = 0
    /\ filtered_count = 0
    /\ processed_count = 0
    /\ error_count = 0
    /\ publish_calls = 0
    /\ log = <<>>
    /\ ret = [op |-> "new", val |-> 0]

\* IpcConnection::new
IpcInit ==
    /\ config \in IpcConfigs
    /\ reconnect_attempts = 0
    /\ home_dir \in HomeDirs
    /\ fs \in SUBSET FsPaths
    /\ pc = "idle"
    /\ trace = <<>>
    /\ start_attempts = 0
    /\ start_failed = FALSE
    /\ failed = FALSE
    /\ ipc_ret = NoCall
    /\ waited = 0
    /\ providers = 0

\* IpcConnection::with_default_config, on an empty file system
IpcDefault ==
    /\ config = [ socket_path |-> <<"/", "a">>,
                  max_reconnect_attempts |-> MAX_RECONNECT_ATTEMPTS,
                  initial_backoff_ms |-> INITIAL_BACKOFF_MS,
                  max_backoff_ms |-> MAX_BACKOFF_MS,
                  timeout_ms |-> CONNECTION_TIMEOUT_MS ]
    /\ reconnect_attempts = 0
    /\ home_dir = None
    /\ fs = {}
    /\ pc = "idle"
    /\ trace = <<>>
    /\ start_attempts = 0
    /\ start_failed = FALSE
    /\ failed = FALSE
    /\ ipc_ret = NoCall
    /\ waited = 0
    /\ providers = 0

\* no stateless operation applied yet
CallInit == call = [fn |-> "none", done |-> FALSE]

\* the orchestrator at its first socket read, on this stream
OrchInit(transactions) ==
    /\ stream = transactions
    /\ stage = "idle"
    /\ in_flight = None
    /\ processedCount = 0
    /\ filteredCount = 0
    /\ publishedCount = 0
    /\ errorCount = 0
    /\ issued = <<>>
    /\ outcomes = <<>>
    /\ stop = Running

InitPipeline == PipelineInit /\ IpcDefault /\ CallInit /\ OrchInit(<<>>)
NextPipeline == ProcessOne \/ ProcessAll \/ SetFailNext
SpecPipeline == InitPipeline /\ [][NextPipeline]_vars

InitIpc == IpcInit /\ PipelineInit /\ CallInit /\ OrchInit(<<>>)
NextIpc ==
    \/ Connect
    \/ ResetReconnectCounter
    \/ ReconnectCall
    \/ ReconnectSleep
    \/ ReconnectAttempt
    \/ ReconnectExhausted
    \/ HandshakeWait
    \/ FsChange
    \/ DropProvider
SpecIpc == InitIpc /\ [][NextIpc]_vars

\* one stateless operation is about to be applied to one of its inputs
InitCalls ==
    /\ PipelineInit
    /\ IpcDefault
    /\ OrchInit(<<>>)
    /\ \/ \E cfg \in BackoffConfigs, attempt \in Attempts :
            call = Asked("backoff_delay", [config |-> cfg, attempt |-> attempt])
       \/ \E input \in Calldatas : call = Asked("filter_transaction", input)
       \/ \E method_id \in MethodIdSamples : call = Asked("lookup", method_id)
       \/ \E input \in Calldatas : call = Asked("extract_method_id", input)
       \/ \E b \in RlpBuffers, from \in Senders :
            call = Asked("decode_transaction",
                         [ rlp_bytes |-> b.rlp_bytes, from |-> from,
                           decoded |-> b.decoded ])
       \/ \E tx \in DecodedSamples, now \in Nows :
            call = Asked("from_decoded", [tx |-> tx, now |-> now])
       \/ \E tx \in DecodedSamples, channel \in Channels,
             transport \in TransportAnswers :
            call = Asked("publish", [ channel |-> channel, tx |-> tx,
                                      now |-> 1234567890,
                                      transport |-> transport ])
       \/ \E m \in MessageSamples : call = Asked("json_round_trip", m)
       \/ \E cfg \in BackoffConfigs64, attempt \in Attempts,
             overflow_checks \in BOOLEAN :
            call = Asked("backoff_delay_u64",
                         [ config |-> cfg, attempt |-> attempt,
                           overflow_checks |-> overflow_checks ])
       \/ \E tx \in DecodedSamples, clock \in Clocks :
            call = Asked("from_decoded_now", [tx |-> tx, clock |-> clock])
       \/ \E path \in ValidatedPaths, home \in Homes :
            call = Asked("validate_ipc_path", [path |-> path, home |-> home])
       \/ \E home \in {None, Some(Chars("/home/u"))},
             fsys \in SUBSET FoundPaths :
            call = Asked("find_ipc_socket", [home |-> home, fs |-> fsys])
       \/ \E path \in ExpandedPaths,
             home \in Homes \cup { Some(Chars("/srv/~x")) } :
            call = Asked("expand_path", [path |-> path, home |-> home])
       \/ \E m \in DexMethodIds : call = Asked("dex_method_id", m)
       \/ \E cfg \in BackoffConfigs64, attempt \in Attempts :
            call = Asked("backoff_delay_pair",
                         [config |-> cfg, attempt |-> attempt])
NextCalls ==
    \/ BackoffDelay
    \/ FilterTransaction
    \/ LookupMethod
    \/ ExtractMethodId
    \/ DecodeTransaction
    \/ FromDecoded
    \/ Publish
    \/ JsonRoundTrip
    \/ BackoffDelayU64
    \/ FromDecodedNow
    \/ ValidateIpcPath
    \/ FindIpcSocket
    \/ ExpandPath
    \/ DexMethodIdTables
    \/ BackoffDelayPair
SpecCalls == InitCalls /\ [][NextCalls]_vars

\* the orchestrator on one of the streams
InitOrchestrator ==
    /\ PipelineInit
    /\ IpcDefault
    /\ CallInit
    /\ \E transactions \in Streams : OrchInit(transactions)
NextOrchestrator ==
    \/ ReadNext
    \/ DecodeStage
    \/ FilterStage
    \/ PublishStage
    \/ StopSignal
    \/ Release
SpecOrchestrator == InitOrchestrator /\ [][NextOrchestrator]_vars

(***************************************************************************)
(* Properties of the pipeline (SpecPipeline)                               *)
(***************************************************************************)
\* the 6 selectors of the data model: calldata whose first 4 bytes are one
MatchesDexSelector(calldata) ==
    /\ Len(calldata) >= 4
    /\ \E m \in DexMethodIds : SubSeq(calldata, 1, 4) = selector(m)

DexMethodOf(calldata) ==
    CHOOSE m \in DexMethodIds : SubSeq(calldata, 1, 4) = selector(m)

\* the publish of a logged call succeeds: the publisher was not set to fail
PublishSucceeds(e) == MatchesDexSelector(e.in.calldata) /\ ~e.failing

\* the messages of the logged calls that match and whose publish succeeds, in
\* call order
RECURSIVE ExpectedMessages(_)
ExpectedMessages(l) ==
    IF l = <<>> THEN <<>>
    ELSE LET e == Head(l)
         IN (IF PublishSucceeds(e)
             THEN <<BuildMessage(e.in.tx, DexMethodOf(e.in.calldata), e.in.now)>>
             ELSE <<>>) \o ExpectedMessages(Tail(l))

CountIn(l, P(_)) == Cardinality({i \in 1..Len(l) : P(l[i])})

RECURSIVE SumCalls(_)
SumCalls(l) == IF l = <<>> THEN 0 ELSE Head(l).calls + SumCalls(Tail(l))

RECURSIVE SumAdded(_)
SumAdded(l) == IF l = <<>> THEN 0 ELSE Head(l).added + SumAdded(Tail(l))

IsErr(e) == e.result = "Err(Failed to publish)"
IsPublished(e) == e.result = "Ok(true)"

\* C1: the messages the publisher received are exactly the DEX-matching
\* inputs whose publish succeeded, one each, in the order the inputs were fed
\* (by process_one or process_all), also with failed publishes in between.
C1_OrderPreserved == messages = ExpectedMessages(log)

\* C1 witness: two different messages were published around a failed publish
C1_Witness ==
    /\ Len(log) = 3
    /\ IsPublished(log[1]) /\ IsErr(log[2]) /\ IsPublished(log[3])
    /\ Len(messages) = 2
    /\ messages[1] # messages[2]

\* what a call returns, by its own input and the publisher's state alone
OutcomeOf(e) ==
    IF ~MatchesDexSelector(e.in.calldata) THEN "Ok(false)"
    ELSE IF e.failing THEN "Err(Failed to publish)"
    ELSE "Ok(true)"

\* C2: a failed publish is an error of that call only: the call adds one to
\* the error counter and nothing to the published messages, the call after it
\* is processed and, if it matches and its publish succeeds, published; and
\* the error counter equals the number of failed publish calls.
C2_ErrorIsolation ==
    /\ \A i \in 1..Len(log) :
         IsErr(log[i]) =>
            /\ log[i].failing /\ MatchesDexSelector(log[i].in.calldata)
            /\ log[i].errors = 1
            /\ log[i].added = 0
            /\ i < Len(log) =>
                  /\ log[i + 1].processed = 1
                  /\ log[i + 1].result = OutcomeOf(log[i + 1])
                  /\ log[i + 1].added = (IF PublishSucceeds(log[i + 1]) THEN 1 ELSE 0)
    /\ \A i \in 1..Len(log) : ~IsErr(log[i]) => log[i].errors = 0
    /\ error_count = CountIn(log, IsErr)
    /\ error_count = publish_calls - Len(messages)

\* C2 witness: a failed publish, and the next transaction published
C2_Witness ==
    \E i \in 1..Len(log) - 1 :
        /\ IsErr(log[i])
        /\ IsPublished(log[i + 1])
        /\ error_count = 1

\* C3: each input causes at most one publish call and at most one published
\* message, within its own call; a failed one adds no message, and no call
\* adds a message for another input, so nothing is retried or published twice.
C3_AtMostOnce ==
    /\ \A i \in 1..Len(log) :
         /\ log[i].calls <= 1
         /\ log[i].added <= 1
         /\ log[i].added <= log[i].calls
         /\ IsErr(log[i]) => log[i].added = 0
         /\ log[i].added = 1 => IsPublished(log[i])
    /\ publish_calls = SumCalls(log)
    /\ Len(messages) = SumAdded(log)
    /\ Len(messages) = CountIn(log, IsPublished)

\* C3 witness: a transaction failed to publish, the same transaction was fed
\* again later and published then
C3_Witness ==
    \E i, j \in 1..Len(log) :
        /\ i < j
        /\ log[i].in = log[j].in
        /\ IsErr(log[i]) /\ log[i].calls = 1
        /\ IsPublished(log[j])
        /\ Len(messages) = 1

\* C4: a transaction whose calldata matches none of the 6 selectors, or is
\* shorter than 4 bytes, is dropped silently: process_one returns Ok(false),
\* the publisher is not called and captures nothing, filtered_count and
\* error_count stay and processed_count grows by one.
C4_NonDexDropped ==
    \A i \in 1..Len(log) :
        ~MatchesDexSelector(log[i].in.calldata) =>
            /\ log[i].result = "Ok(false)"
            /\ log[i].calls = 0
            /\ log[i].added = 0
            /\ log[i].filtered = 0
            /\ log[i].errors = 0
            /\ log[i].processed = 1

\* C4 witness: a short buffer and a 4-byte non-DEX selector were both
\* processed, one of them while the publisher was set to fail
C4_Witness ==
    /\ \E i \in 1..Len(log) : Len(log[i].in.calldata) < 4 /\ log[i].failing
    /\ \E i \in 1..Len(log) :
         Len(log[i].in.calldata) >= 4 /\ ~MatchesDexSelector(log[i].in.calldata)
    /\ ret.op = "process_one" /\ ret.val = "Ok(false)"
    /\ filtered_count = 0 /\ processed_count >= 2

(***************************************************************************)
(* Properties of the connection manager (SpecIpc)                          *)
(***************************************************************************)
\* the last call that completed on the connection was reconnect(), and no
\* other call has started since: trace and start_attempts are that call's
ReconnectReturned == pc = "idle" /\ ipc_ret.op = "reconnect"
InReconnect == pc \in {"loop", "connecting", "loop_handshake"}
ConnectReturned == pc = "idle" /\ ipc_ret.op = "connect"

ConnectsIn(t) == {i \in 1..Len(t) : t[i].ev = "connect"}

IsExceeded(val) ==
    /\ val.tag = "Err"
    /\ val.kind = "MaxReconnectAttemptsExceeded"
    /\ val.arg = config.max_reconnect_attempts

\* C5: a reconnect() call started with the counter at 0 in which every
\* connect attempt fails makes exactly max_reconnect_attempts attempts and
\* returns MaxReconnectAttemptsExceeded(max_reconnect_attempts); no error of
\* an attempt is what reconnect() returns.
C5_ExhaustsAllAttempts ==
    /\ ( /\ ReconnectReturned
         /\ start_attempts = 0
         /\ \A i \in ConnectsIn(trace) : trace[i].res = "Err" )
       => /\ Cardinality(ConnectsIn(trace)) = config.max_reconnect_attempts
          /\ IsExceeded(ipc_ret.val)
    /\ (ReconnectReturned /\ ipc_ret.val.tag = "Err") => IsExceeded(ipc_ret.val)

\* C5 witness: a call of more than 10 attempts, all failed, gave up
C5_Witness ==
    /\ ReconnectReturned
    /\ start_attempts = 0
    /\ config.max_reconnect_attempts > MAX_RECONNECT_ATTEMPTS
    /\ Cardinality(ConnectsIn(trace)) = config.max_reconnect_attempts
    /\ IsExceeded(ipc_ret.val)

\* C6: reconnect() returns on the first attempt that succeeds: a successful
\* attempt is the last event of the call, the call has returned Ok with it,
\* and the counter is 0 when it returns.
C6_ReturnsOnFirstSuccess ==
    /\ \A i \in ConnectsIn(trace) :
         trace[i].res = "Ok" => (i = Len(trace) /\ ~InReconnect)
    /\ (ReconnectReturned /\ ipc_ret.val.tag = "Ok")
       => /\ trace # <<>>
          /\ trace[Len(trace)] = [ev |-> "connect", ms |-> 0, res |-> "Ok"]
          /\ reconnect_attempts = 0

\* C6 witness: two attempts failed, the third succeeded and the call returned
C6_Witness ==
    /\ ReconnectReturned
    /\ ipc_ret.val.tag = "Ok"
    /\ Cardinality(ConnectsIn(trace)) = 3
    /\ trace[2].res = "Err" /\ trace[4].res = "Err"

\* the delay the design gives for the k-th loop iteration, k from 0
ExpectedDelay(k) ==
    Min(config.initial_backoff_ms * Pow2(Min(k, 10)), config.max_backoff_ms)

\* C7: in every reconnect() call the events alternate sleep, connect,
\* starting with a sleep, and the sleep before the k-th attempt of the call
\* (k from 0) lasts min(initial_backoff_ms * 2^min(k,10), max_backoff_ms).
C7_SleepBeforeEachAttempt ==
    \A i \in 1..Len(trace) :
        IF i % 2 = 1
        THEN /\ trace[i].ev = "sleep"
             /\ trace[i].ms = ExpectedDelay((i - 1) \div 2)
        ELSE trace[i].ev = "connect"

\* C7 witness: a call reached its 12th sleep, where the exponent is capped
\* and the delay is below the configured maximum
C7_Witness ==
    /\ Len(trace) >= 23
    /\ trace[23].ms = INITIAL_BACKOFF_MS * 1024
    /\ trace[23].ms < config.max_backoff_ms
    /\ trace[1].ms = INITIAL_BACKOFF_MS

\* C8: Failed is terminal until reset: a reconnect() call made after
\* reconnect() returned MaxReconnectAttemptsExceeded, with no
\* reset_reconnect_counter() and no successful connect() in between, neither
\* sleeps nor attempts to connect and returns MaxReconnectAttemptsExceeded.
C8_FailedIsTerminal ==
    /\ (InReconnect /\ start_failed) => (pc = "loop" /\ trace = <<>>)
    /\ (ReconnectReturned /\ start_failed)
       => (trace = <<>> /\ IsExceeded(ipc_ret.val))

\* the path connect() looks for: a leading ~/ replaced by the home directory
ExpectedPath ==
    IF Len(config.socket_path) >= 2 /\ config.socket_path[1] = "~"
       /\ config.socket_path[2] = "/" /\ home_dir.some
    THEN home_dir.val \o Tail(config.socket_path)
    ELSE config.socket_path

\* C8 witness: a second reconnect() in the Failed state returned while the
\* socket was there, after a configuration that allows attempts
C8_Witness ==
    /\ ReconnectReturned
    /\ start_failed
    /\ config.max_reconnect_attempts >= 2
    /\ ExpectedPath \in ipc_ret.fsys

\* C9: after every successful connect(), called directly or from inside
\* reconnect(), the reconnect-attempt counter is 0.
C9_SuccessResetsCounter ==
    /\ (ConnectReturned /\ ipc_ret.val.tag = "Ok") => reconnect_attempts = 0
    /\ (ReconnectReturned /\ ipc_ret.val.tag = "Ok") => reconnect_attempts = 0
    /\ \A i \in ConnectsIn(trace) :
         (trace[i].res = "Ok" /\ i = Len(trace) /\ pc = "idle"
          /\ ipc_ret.op = "reconnect") => reconnect_attempts = 0

\* C9 witness: a direct connect() succeeded when the counter was at its
\* maximum
C9_Witness ==
    /\ ConnectReturned
    /\ ipc_ret.val.tag = "Ok"
    /\ ipc_ret.before > MAX_RECONNECT_ATTEMPTS
    /\ reconnect_attempts = 0

\* C10: connect() on a configured path that, after ~/ expansion, does not
\* exist returns SocketNotFound with the expanded path and starts no
\* handshake (and so returns no handle).
C10_MissingSocket ==
    (ConnectReturned /\ ExpectedPath \notin ipc_ret.fsys)
    => /\ ipc_ret.val = Err("SocketNotFound", ExpectedPath)
       /\ ipc_ret.handshakes = 0

\* C10 witness: a ~/ path whose expansion is missing while another path exists
C10_Witness ==
    /\ ConnectReturned
    /\ config.socket_path = <<"~", "/", "a">>
    /\ home_dir.some
    /\ ipc_ret.fsys = {<<"/", "a">>}
    /\ ipc_ret.val.kind = "SocketNotFound"

\* the time the caller has spent in a handshake that has not completed, in
\* milliseconds
WaitedMs == waited * (config.timeout_ms \div 2)

\* C11: a connect() against an existing endpoint whose handshake never
\* completes returns, with Timeout, within timeout_ms: no caller is still in
\* the handshake of a connect() once more than timeout_ms have passed.
C11_TimeoutEndsHandshake ==
    pc \in {"handshake", "loop_handshake"} => WaitedMs <= config.timeout_ms

(***************************************************************************)
(* Properties of the stateless operations (SpecCalls)                      *)
(***************************************************************************)
IsCall(fn) == call.fn = fn /\ call.done

\* C12: backoff_delay(n) is min(initial_backoff_ms * 2^min(n,10),
\* max_backoff_ms) for every attempt number n, and with the default
\* configuration the delays for n = 0, 1, 2, 3 are 100, 200, 400, 800.
C12_BackoffFormula ==
    IsCall("backoff_delay") =>
        LET cfg == call.arg.config
            n == call.arg.attempt
            doublings == IF n < 10 THEN n ELSE 10
            product == cfg.initial_backoff_ms * (2 ^ doublings)
        IN /\ call.out = IF product < cfg.max_backoff_ms
                          THEN product ELSE cfg.max_backoff_ms
           /\ (cfg.initial_backoff_ms = 100 /\ cfg.max_backoff_ms = 30000
               /\ n <= 3)
              => call.out = <<100, 200, 400, 800>>[n + 1]

\* C12 witness: the default configuration gave 800 for n = 3
C12_Witness ==
    /\ IsCall("backoff_delay")
    /\ call.arg.config.initial_backoff_ms = INITIAL_BACKOFF_MS
    /\ call.arg.config.max_backoff_ms = MAX_BACKOFF_MS
    /\ call.arg.attempt = 3
    /\ call.out = 800

DexOperations ==
    { [op |-> "AddLiquidityEth",                       \* 0xf305d719
       sel |-> <<15 * 16 + 3, 5, 13 * 16 + 7, 16 + 9>>],
      [op |-> "AddLiquidity",                          \* 0xe8e33700
       sel |-> <<14 * 16 + 8, 14 * 16 + 3, 3 * 16 + 7, 0>>],
      [op |-> "SwapExactEthForTokens",                 \* 0x7ff36ab5
       sel |-> <<7 * 16 + 15, 15 * 16 + 3, 6 * 16 + 10, 11 * 16 + 5>>],
      [op |-> "SwapExactTokensForTokens",              \* 0x38ed1739
       sel |-> <<3 * 16 + 8, 14 * 16 + 13, 16 + 7, 3 * 16 + 9>>],
      [op |-> "SwapTokensForExactTokens",              \* 0x8803dbee
       sel |-> <<8 * 16 + 8, 3, 13 * 16 + 11, 14 * 16 + 14>>],
      [op |-> "SwapExactTokensForEth",                 \* 0x18cbafe5
       sel |-> <<16 + 8, 12 * 16 + 11, 10 * 16 + 15, 14 * 16 + 5>>] }

\* the buffer starts with the 4 bytes sel
StartsWithSelector(input, sel) ==
    Len(input) >= 4 /\ \A i \in 1..4 : input[i] = sel[i]

\* C14: filter_transaction returns the matching operation when the first 4
\* bytes of the input are one of the 6 selectors, whatever follows, and
\* nothing for every other input (all-zero, ERC-20 transfer and approve,
\* fewer than 4 bytes); is_dex_method(s) is true exactly when
\* get_dex_method(s) is present.
C14_FilterMatchesSixSelectors ==
    /\ IsCall("filter_transaction") =>
          /\ \A d \in DexOperations :
                StartsWithSelector(call.arg, d.sel) => call.out = Some(d.op)
          /\ (\A d \in DexOperations : ~StartsWithSelector(call.arg, d.sel))
                => call.out = None
    /\ IsCall("lookup") =>
          /\ call.out.is_dex_method <=> call.out.get_dex_method.some
          /\ call.out.is_dex_method
                <=> \E d \in DexOperations : d.sel = call.arg

\* C14 witness: a selector followed by bytes that are not zero was matched
C14_Witness ==
    /\ IsCall("filter_transaction")
    /\ call.arg = <<127, 243, 106, 181, 255, 1, 2>>
    /\ call.out = Some("SwapExactEthForTokens")

\* C15: selector extraction is total: it returns nothing for every input
\* shorter than 4 bytes and exactly the first 4 bytes for every input of 4 or
\* more, and decoder::extract_method_id and filter::extract_method_id return
\* the same on every input.
C15_ExtractionTotalAndAgreed ==
    IsCall("extract_method_id") =>
        /\ Len(call.arg) < 4 => call.out.filter = None
        /\ Len(call.arg) >= 4 =>
              /\ call.out.filter.some
              /\ Len(call.out.filter.val) = 4
              /\ \A i \in 1..4 : call.out.filter.val[i] = call.arg[i]
        /\ call.out.decoder = call.out.filter

\* C15 witness: both gave the 4 bytes of a buffer of exactly 4 bytes
C15_Witness ==
    /\ IsCall("extract_method_id")
    /\ call.arg = <<169, 5, 156, 187>>
    /\ call.out.decoder = Some(<<169, 5, 156, 187>>)
    /\ call.out.filter = Some(<<169, 5, 156, 187>>)

\* a decode_transaction call that returned a DecodedTransaction
DecodeSucceeded == IsCall("decode_transaction") /\ call.out.result.tag = "Ok"

\* the operation of the data model with this selector, if there is one
OperationOf(method_id) ==
    IF method_id.some /\ \E d \in DexOperations : d.sel = method_id.val
    THEN Some((CHOOSE d \in DexOperations : d.sel = method_id.val).op)
    ELSE None

\* C16: in every DecodedTransaction produced by decode_transaction,
\* dex_method is present only if method_id is present and equals that
\* operation's selector; dex_method is the result of looking method_id up,
\* and method_id is the first 4 bytes of input.
C16_DecodedSelectorConsistent ==
    DecodeSucceeded =>
        LET tx == call.out.result.arg
        IN /\ tx.dex_method.some =>
                /\ tx.method_id.some
                /\ \E d \in DexOperations :
                      d.op = tx.dex_method.val /\ d.sel = tx.method_id.val
           /\ tx.dex_method = OperationOf(tx.method_id)
           /\ tx.method_id =
                IF Len(tx.input) >= 4
                THEN Some(<<tx.input[1], tx.input[2], tx.input[3], tx.input[4]>>)
                ELSE None

\* C16 witness: a decoded Eip1559 transaction whose call data is a selector
\* with parameters
C16_Witness ==
    /\ DecodeSucceeded
    /\ call.arg.decoded.envelope.kind = "Eip1559"
    /\ call.out.result.arg.input = <<243, 5, 215, 25, 0, 0>>
    /\ call.out.result.arg.dex_method = Some("AddLiquidityEth")
    /\ call.out.result.arg.method_id = Some(<<243, 5, 215, 25>>)

\* C20: decode_transaction on a zero-length buffer fails with EmptyInput
\* before any parsing is attempted, for every sender: never RlpDecode, never a
\* DecodedTransaction.
C20_EmptyInputFirst ==
    (IsCall("decode_transaction") /\ Len(call.arg.rlp_bytes) = 0) =>
        /\ call.out.result.tag = "Err"
        /\ call.out.result.kind = "EmptyInput"
        /\ ~call.out.parsed

\* C20 witness: the empty buffer was refused for the second sender
C20_Witness ==
    /\ IsCall("decode_transaction")
    /\ call.arg.rlp_bytes = <<>>
    /\ call.arg.from = Repeat(171, 20)
    /\ call.out.result.kind = "EmptyInput"

\* the name and the hex string of each of the 6 operations of the data model
OperationStrings ==
    { [op |-> "AddLiquidityEth", name |-> "addLiquidityETH",
       hex |-> "0xf305d719"],
      [op |-> "AddLiquidity", name |-> "addLiquidity",
       hex |-> "0xe8e33700"],
      [op |-> "SwapExactEthForTokens", name |-> "swapExactETHForTokens",
       hex |-> "0x7ff36ab5"],
      [op |-> "SwapExactTokensForTokens", name |-> "swapExactTokensForTokens",
       hex |-> "0x38ed1739"],
      [op |-> "SwapTokensForExactTokens", name |-> "swapTokensForExactTokens",
       hex |-> "0x8803dbee"],
      [op |-> "SwapExactTokensForEth", name |-> "swapExactTokensForETH",
       hex |-> "0x18cbafe5"] }

\* C17: from_decoded(tx) returns absent exactly when tx.dex_method is absent;
\* when tx.dex_method is present it returns a message whose method and
\* methodId are that operation's name and hex string, for each of the 6
\* operations.
C17_FromDecodedNamesOperation ==
    IsCall("from_decoded") =>
        LET tx == call.arg.tx
        IN /\ ~call.out.some <=> ~tx.dex_method.some
           /\ tx.dex_method.some =>
                /\ call.out.some
                /\ \E d \in OperationStrings :
                      /\ d.op = tx.dex_method.val
                      /\ call.out.val.method = d.name
                      /\ call.out.val.method_id = d.hex

\* C17 witness: a transaction with dex_method SwapExactTokensForEth was given
\* its message
C17_Witness ==
    /\ IsCall("from_decoded")
    /\ call.arg.tx.dex_method = Some("SwapExactTokensForEth")
    /\ call.out.some
    /\ call.out.val.method = "swapExactTokensForETH"
    /\ call.out.val.method_id = "0x18cbafe5"

\* C18: Publisher::publish(tx) on a transaction whose dex_method is absent
\* returns NotDexTransaction without serializing anything and without issuing
\* any publish call on the transport; a transport publish is issued only for
\* transactions with dex_method present, exactly one per successful
\* publish(tx) call, on the configured channel.
C18_PublishOnlyDexOnChannel ==
    IsCall("publish") =>
        LET tx == call.arg.tx
            out == call.out
        IN /\ ~tx.dex_method.some =>
                /\ out.result.tag = "Err"
                /\ out.result.kind = "NotDexTransaction"
                /\ out.serialized = 0
                /\ out.sent = <<>>
           /\ out.sent # <<>> => tx.dex_method.some
           /\ out.result.tag = "Ok" => Len(out.sent) = 1
           /\ \A i \in 1..Len(out.sent) :
                out.sent[i].channel = call.arg.channel

\* C18 witness: an ERC-20 transfer was refused by a publisher of the custom
\* channel
C18_Witness ==
    /\ IsCall("publish")
    /\ call.arg.channel = "custom_channel"
    /\ call.arg.tx.method_id = Some(<<169, 5, 156, 187>>)
    /\ ~call.arg.tx.dex_method.some
    /\ call.out.result.kind = "NotDexTransaction"
    /\ call.out.sent = <<>>

\* the other case of C18: a DEX transaction was published once on the
\* custom channel
PublishedOnceOnChannel ==
    /\ IsCall("publish")
    /\ call.arg.channel = "custom_channel"
    /\ call.arg.tx.dex_method.some
    /\ call.out.result.tag = "Ok"
    /\ Len(call.out.sent) = 1
    /\ call.out.sent[1].channel = "custom_channel"

\* C19: the JSON round trip is exact: for every TransactionMessage m,
\* from_json(to_json(m)) succeeds and equals m in all 8 fields (hash, from,
\* to, method, methodId, value, gasPrice, timestamp).
C19_JsonRoundTripExact ==
    IsCall("json_round_trip") =>
        LET m == call.arg
        IN /\ call.out.json.tag = "Ok"
           /\ call.out.back.tag = "Ok"
           /\ LET back == call.out.back.val
              IN /\ back.hash = m.hash
                 /\ back.from = m.from
                 /\ back.to = m.to
                 /\ back.method = m.method
                 /\ back.method_id = m.method_id
                 /\ back.value = m.value
                 /\ back.gas_price = m.gas_price
                 /\ back.timestamp = m.timestamp

\* C19 witness: a message with a quote and a backslash in its fields was
\* written and read back
C19_Witness ==
    /\ IsCall("json_round_trip")
    /\ call.arg.hash = "\\\""
    /\ call.arg.to = "a\"b"
    /\ call.arg.value = "\\"
    /\ call.out.back.tag = "Ok"
    /\ call.out.back.val.hash = "\\\""

\* the transaction is one decode_transaction fails on: an empty buffer, or
\* bytes the RLP decoder rejects
DecodeFails(pending) == pending.rlp_bytes = <<>> \/ pending.decoded.tag = "Err"

C22_OneLiveHandle == providers <= 1

C24_NoOperationPanics ==
    (IsCall("backoff_delay_u64") \/ IsCall("from_decoded_now")) =>
        ~call.out.panic

\* the path follows one of the naming conventions
NamedLikeSocket(path) ==
    \/ ends_with(path, <<".", "i", "p", "c">>)
    \/ contains(path, <<"g", "e", "t", "h">>)
    \/ contains(path, <<"a", "n", "v", "i", "l">>)

Candidates ==
    << "/tmp/anvil.ipc", "~/.foundry/anvil.ipc", "/var/run/geth.ipc",
       "~/.ethereum/geth.ipc" >>
ExpandedCandidate(i, home) ==
    IF i \in {2, 4} /\ home.some
    THEN home.val \o Tail(Chars(Candidates[i]))
    ELSE Chars(Candidates[i])

\* C26: find_ipc_socket returns the expanded form of the first path of the
\* fixed ordered candidate list that exists, never a later candidate when an
\* earlier one exists, and returns absent exactly when none of the four
\* exists.
C26_FirstExistingCandidate ==
    IsCall("find_ipc_socket") =>
        LET home == call.arg.home
            existing == {i \in 1..4 : ExpandedCandidate(i, home) \in call.arg.fs}
        IN /\ existing = {} <=> ~call.out.some
           /\ existing # {} =>
                \E i \in existing :
                   /\ \A k \in existing : i <= k
                   /\ call.out = Some(ExpandedCandidate(i, home))

\* C26 witness: with the second and the fourth candidate existing under the
\* home directory, the second was returned expanded
C26_Witness ==
    /\ IsCall("find_ipc_socket")
    /\ call.arg.home = Some(Chars("/home/u"))
    /\ call.arg.fs = { Chars("/home/u/.foundry/anvil.ipc"),
                       Chars("/home/u/.ethereum/geth.ipc") }
    /\ call.out = Some(Chars("/home/u/.foundry/anvil.ipc"))

\* the four envelope kinds the decoder names, and the recipient an envelope
\* carries: a call's address, or none for a contract creation
NamedKinds == {"Legacy", "Eip2930", "Eip1559", "Eip4844"}
RecipientOf(envelope) ==
    IF envelope.kind \in {"Legacy", "Eip2930", "Eip1559"}
    THEN IF envelope.tx.to.call THEN Some(envelope.tx.to.to) ELSE None
    ELSE Some(envelope.tx.to)

\* the decoded transaction carries the fields of its envelope, with the
\* fee-relevant price of its kind
CarriesEnvelope(tx, envelope, from) ==
    /\ tx.from = from
    /\ tx.input = envelope.tx.input
    /\ tx.to = RecipientOf(envelope)
    /\ tx.value = envelope.tx.value
    /\ tx.nonce = envelope.tx.nonce
    /\ tx.gas_limit = envelope.tx.gas_limit
    /\ tx.gas_price = IF envelope.kind \in {"Legacy", "Eip2930"}
                      THEN envelope.tx.gas_price
                      ELSE envelope.tx.max_fee_per_gas

\* C27 as claimed: for every successfully decoded transaction, gas_price is
\* the maximum fee per gas for fee-market and blob-carrying envelopes and the
\* flat gas price for legacy and access-list envelopes, and input, to, value,
\* nonce and gas_limit are carried through unchanged from the envelope, with
\* from equal to the sender address passed in.
C27_FieldsCarriedForEveryEnvelope ==
    DecodeSucceeded =>
        CarriesEnvelope(call.out.result.arg, call.arg.decoded.envelope,
                        call.arg.from)

\* C27 as amended: the same for every successfully decoded transaction of
\* the four kinds extract_tx_fields names (legacy, access-list, fee-market,
\* blob-carrying); from is the sender passed in for every kind.
C27_FieldsCarriedForNamedKinds ==
    DecodeSucceeded =>
        /\ call.out.result.arg.from = call.arg.from
        /\ call.arg.decoded.envelope.kind \in NamedKinds =>
              CarriesEnvelope(call.out.result.arg, call.arg.decoded.envelope,
                              call.arg.from)

\* C27 witness: a blob-carrying envelope decoded with its maximum fee per gas
\* and its recipient
C27_Witness ==
    /\ DecodeSucceeded
    /\ call.arg.decoded.envelope.kind = "Eip4844"
    /\ call.arg.from = Repeat(171, 20)
    /\ call.out.result.arg.gas_price = 9
    /\ call.out.result.arg.to = Some(Repeat(34, 20))
    /\ call.out.result.arg.input = NonDexCalldata
    /\ call.out.result.arg.from = Repeat(171, 20)

\* a DecodedTransaction of default/zero field values, which is not published
DefaultsNeverPublished(tx) ==
    /\ tx.input = <<>>
    /\ tx.to = None
    /\ tx.value = 0
    /\ tx.gas_price = 0
    /\ tx.nonce = 0
    /\ tx.gas_limit = 0
    /\ tx.method_id = None
    /\ tx.dex_method = None
    /\ \A channel \in Channels, transport \in TransportAnswers :
          LET p == publish_tx(channel, tx, 0, transport)
          IN p.result.tag = "Err" /\ p.sent = <<>>

\* the buffer holds an envelope of a kind the RLP decoder rejects as
\* malformed or unknown
MalformedKind == call.arg.rlp_bytes # <<>> /\ call.arg.decoded.tag = "Err"

\* the buffer holds an envelope of a kind other than the four named
OtherKind ==
    /\ call.arg.rlp_bytes # <<>>
    /\ call.arg.decoded.tag = "Ok"
    /\ call.arg.decoded.envelope.kind \notin NamedKinds

\* C28 as claimed: decoding a transaction of any other or malformed envelope
\* kind yields a DecodedTransaction with default/zero field values rather
\* than an error; such a record has method_id and dex_method absent and is
\* therefore never published.
C28_DefaultsForOtherOrMalformed ==
    (IsCall("decode_transaction") /\ (OtherKind \/ MalformedKind)) =>
        /\ call.out.result.tag = "Ok"
        /\ DefaultsNeverPublished(call.out.result.arg)

\* C28 as amended: decoding an envelope the RLP decoder accepts, of a kind
\* other than the four named, yields a DecodedTransaction with default/zero
\* field values rather than an error, with method_id and dex_method absent,
\* which is never published; an envelope the RLP decoder rejects, malformed
\* or of an unknown type, yields the error RlpDecode.
C28_DefaultsForOtherKind ==
    IsCall("decode_transaction") =>
        /\ OtherKind =>
              /\ call.out.result.tag = "Ok"
              /\ DefaultsNeverPublished(call.out.result.arg)
        /\ MalformedKind =>
              /\ call.out.result.tag = "Err"
              /\ call.out.result.kind = "RlpDecode"

\* C28 witness: an Eip7702 envelope whose call data starts with a selector
\* of the table was decoded to the defaults
C28_Witness ==
    /\ DecodeSucceeded
    /\ call.arg.decoded.envelope.kind = "Eip7702"
    /\ call.arg.decoded.envelope.tx.input = DexCalldata("AddLiquidityEth", 2)
    /\ call.out.result.arg.input = <<>>
    /\ call.out.result.arg.dex_method = None

\* the characters of a lowercase hexadecimal rendering
LowerHexChars ==
    {"0", "1", "2", "3", "4", "5", "6", "7", "8", "9", "a", "b", "c", "d", "e",
     "f"}

C30_OneIncrementPerAttempt ==
    InReconnect =>
        LET k == Cardinality(ConnectsIn(trace))
        IN /\ \A i \in ConnectsIn(trace) : trace[i].res = "Err"
           /\ pc = "loop" => reconnect_attempts = start_attempts + k
           /\ pc \in {"connecting", "loop_handshake"} =>
                 reconnect_attempts = start_attempts + k + 1
           /\ (pc = "loop" /\ start_attempts = 0) => reconnect_attempts = k

\* C30 witness: three attempts of a call started at counter 0 have failed
C30_Witness ==
    /\ pc = "loop"
    /\ start_attempts = 0
    /\ Cardinality(ConnectsIn(trace)) = 3
    /\ reconnect_attempts = 3

\* C31: expand_path replaces only a leading "~/" with the home directory: a
\* path that does not start with "~/" (one with a tilde in the middle
\* included) is returned unchanged, a path starting with "~/" is returned as
\* the home directory followed by the path without its tilde, and when no
\* home directory is known the path is returned unchanged.
C31_OnlyLeadingTildeExpanded ==
    IsCall("expand_path") =>
        LET path == call.arg.path
            home == call.arg.home
            leading == Len(path) >= 2 /\ path[1] = "~" /\ path[2] = "/"
        IN /\ ~leading => call.out = path
           /\ (leading /\ home.some) =>
                 call.out = home.val \o SubSeq(path, 2, Len(path))
           /\ ~home.some => call.out = path

\* C31 witness: a path with a leading "~/" and further tildes was expanded
\* for a known home directory, and only its first character was replaced
C31_Witness ==
    /\ IsCall("expand_path")
    /\ call.arg.path = Chars("~/a~b/~/c")
    /\ call.arg.home = Some(Chars("/home/u"))
    /\ call.out = Chars("/home/u/a~b/~/c")

\* C32: the three selector tables agree for every DexMethodId m:
\* get_dex_method(m.selector()) returns m, m.hex() is "0x" followed by the
\* lowercase hex encoding of m.selector() (10 characters), the 6 selectors
\* are pairwise distinct, and the lookup table has exactly 6 entries.
C32_SelectorTablesAgree ==
    IsCall("dex_method_id") =>
        LET m == call.arg
        IN /\ call.out.get_dex_method = Some(m)
           /\ Chars(call.out.hex) = <<"0", "x">> \o hex_encode(call.out.selector)
           /\ Len(call.out.hex) = 10
           /\ \A other \in DexMethodIds \ {m} :
                 selector(other) # call.out.selector
           /\ Cardinality(DexMethodIds) = 6
           /\ call.out.len = 6

\* C32 witness: the tables were read for swapTokensForExactTokens, whose
\* selector 0x8803dbee has a digit below and digits above 9 in its bytes
C32_Witness ==
    /\ IsCall("dex_method_id")
    /\ call.arg = "SwapTokensForExactTokens"
    /\ call.out.selector = <<136, 3, 219, 238>>
    /\ call.out.hex = "0x8803dbee"
    /\ call.out.get_dex_method = Some("SwapTokensForExactTokens")

\* C33: after any sequence of process_one calls on the pipeline, with any
\* pattern of publish failures: processed_count equals the number of calls,
\* filtered_count equals the number of calls whose calldata matched a DEX
\* selector, and filtered_count = published_count + error_count, with
\* published_count <= filtered_count <= processed_count.
C33_CountersAccountForCalls ==
    /\ processed_count = Len(log)
    /\ filtered_count =
          Cardinality({i \in 1..Len(log) : MatchesDexSelector(log[i].in.calldata)})
    /\ filtered_count = published_count + error_count
    /\ published_count <= filtered_count
    /\ filtered_count <= processed_count

\* C33 witness: of three calls one did not match, one was published and one
\* failed to publish, so that the three counters and the published count
\* all differ from the number of calls or from each other
C33_Witness ==
    /\ Len(log) = 3
    /\ processed_count = 3
    /\ filtered_count = 2
    /\ published_count = 1
    /\ error_count = 1
    /\ \E i \in 1..3 : ~MatchesDexSelector(log[i].in.calldata)

\* a step in which a connect(), called directly or by reconnect(), succeeds,
\* one in which reset_reconnect_counter() is called, and one in which
\* reconnect() goes from its sleep to its connect
ConnectSucceedsStep ==
    \/ /\ pc = "idle" /\ pc' = "idle"
       /\ ipc_ret'.op = "connect" /\ ipc_ret'.val.tag = "Ok"
    \/ /\ pc = "connecting" /\ pc' = "idle"
       /\ ipc_ret'.op = "reconnect" /\ ipc_ret'.val.tag = "Ok"
ResetStep == pc = "idle" /\ pc' = "idle" /\ ipc_ret'.op = "reset"
ReconnectIncrementStep == pc = "loop" /\ pc' = "connecting"

C35_CounterInRange ==
    /\ 0 <= reconnect_attempts
    /\ reconnect_attempts <= config.max_reconnect_attempts
    /\ (pc = "loop" /\ trace = <<>>)
          => reconnect_attempts \in {0, config.max_reconnect_attempts}
    /\ (InReconnect \/ ReconnectReturned)
          => start_attempts \in {0, config.max_reconnect_attempts}

\* C35 witness: reconnect() has just been called with the counter at a
\* maximum above 0, after an earlier reconnect() had used up its attempts
C35_Witness ==
    /\ pc = "loop"
    /\ trace = <<>>
    /\ config.max_reconnect_attempts = 2
    /\ start_attempts = 2
    /\ reconnect_attempts = 2
    /\ start_failed

\* C36: backoff_delay is non-decreasing in the attempt number and never
\* exceeds max_backoff_ms for every 64-bit configuration, including
\* configurations where initial_backoff_ms * 2^10 does not fit in an
\* unsigned 64-bit integer (the multiplication taken modulo 2^64).
C36_BackoffMonotoneAndBounded ==
    IsCall("backoff_delay_pair") =>
        /\ ~call.out.delay.panic /\ ~call.out.next_delay.panic
        /\ ~u64_lt(call.arg.config.max_backoff_ms, call.out.delay.val)
        /\ ~u64_lt(call.arg.config.max_backoff_ms, call.out.next_delay.val)
        /\ ~u64_lt(call.out.next_delay.val, call.out.delay.val)

\* C37: decode_transaction only ever fails with EmptyInput or RlpDecode: the
\* declared error variants InvalidTxType and InputTooShort are never
\* returned, for any input buffer, including one with an unsupported
\* envelope discriminant (which fails with RlpDecode) or call data shorter
\* than 4 bytes (which gives a DecodedTransaction without a selector).
C37_OnlyEmptyInputOrRlpDecode ==
    IsCall("decode_transaction") =>
        /\ call.out.result.kind \in {"DecodedTransaction", "EmptyInput", "RlpDecode"}
        /\ call.out.result.tag = "Err"
              => call.out.result.kind \in {"EmptyInput", "RlpDecode"}
        /\ (call.arg.rlp_bytes # <<>> /\ call.arg.decoded.tag = "Err")
              => call.out.result.kind = "RlpDecode"
        /\ (call.arg.rlp_bytes # <<>> /\ call.arg.decoded.tag = "Ok")
              => /\ call.out.result.tag = "Ok"
                 /\ Len(call.out.result.arg.input) < 4
                       => ~call.out.result.arg.method_id.some

\* C37 witness: an envelope whose call data is 3 bytes long was decoded into
\* a DecodedTransaction without a selector
C37_Witness ==
    /\ IsCall("decode_transaction")
    /\ call.arg.decoded.tag = "Ok"
    /\ call.out.result.tag = "Ok"
    /\ call.out.result.arg.input = ShortCalldata
    /\ call.out.result.arg.method_id = None

====
